---- MODULE Spec2Model ----
(***************************************************************************)
(* Verification model of the player pipeline of foxglove-studio:           *)
(*   - the topic mapping engine      (TopicMappingPlayer/mapping.ts)       *)
(*   - the topic mapping player      (TopicMappingPlayer.ts)               *)
(*   - the synchronized message handler (ImageMode/MessageHandler.ts)      *)
(*   - namespaced topics and the config migration (ThreeDeeRender)         *)
(*   - the MCAP iterable source      (Mcap/McapIterableSource.ts)          *)
(*                                                                         *)
(* Several specifications share the module: SpecMapping applies the pure   *)
(* mapping functions to bounded inputs, SpecPlayer runs the proxy player,  *)
(* SpecMemo runs it with a record of the identity of the objects involved, *)
(* SpecLive runs it under a wrapped player that keeps emitting states,     *)
(* SpecHandler, SpecNarrowing and SpecDelivery run the message handler,    *)
(* SpecNamespace applies the topic namespacing to bounded strings and      *)
(* SpecMigration migrates a renderer config call after call and SpecSource  *)
(* runs a McapIterableSource.                                              *)
(***************************************************************************)
EXTENDS Integers, Sequences, FiniteSets, TLC

VARIABLES
  \* ---- mapping engine (pure functions): the inputs and the last call
  mInputs,      \* MappingInputs { mappers, topics, variables }
  mCall,        \* the last engine call: [op, arg, result]
  \* ---- TopicMappingPlayer
  pInputs,      \* #inputs
  pPending,     \* #pendingSubscriptions
  pSkip,        \* #skipMapping
  pListener,    \* #listener is set
  pRunning,     \* #onPlayerState invocations suspended at `await this.#listener`
  inner,        \* the wrapped player: what it was last called with
  delivered,    \* the state last handed to the consumer's listener
  requested,    \* history: number of setSubscriptions calls of the consumer
  pRequest,     \* history: the subscriptions the consumer asked for last
  buffered,     \* history: number of the request last stored as pending
  pLast,        \* the player operation of the last step and its argument
  pControls,    \* the playback controls the wrapped player implements
  passed,       \* the pass-through calls the last step made on the wrapped player
  pMemo,        \* the objects the player holds and the memoize-weak caches
  pOps,         \* number of player operations performed so far
  \* ---- MessageHandler
  config,       \* #config
  lastReceived, \* #lastReceivedMessages
  tree,         \* #tree
  oldRenderState, \* #oldRenderState
  listeners,    \* #listeners
  calls,        \* listener invocations of the last emission
  returned,     \* value produced by the getRenderState of the last step
  scanned,      \* the index as that getRenderState found it
  lastOp,       \* the handler operation of the last step and its argument
  hLimit,       \* number of handler operations a run may perform
  handled,      \* record of the messages handled so far, when a run keeps one
  hOps,         \* number of handler operations performed so far
  \* ---- namespaced topics and the config migration
  nsCall,       \* the last namespaceTopic / unnamespacetopic call
  rConfig,      \* the RendererConfig held by useMigratedThreeDeeConfig
  rOriginal,    \* history: the legacy topics map before the first migration
  rLast,        \* the last migrateConfigTopicsNodes call: [topics, ref]
  rOps,         \* number of migrations performed so far
  \* ---- McapIterableSource
  sSource,      \* #source.type
  sAssets,      \* the inner sources that implement fetchAsset
  sSourceImpl,  \* #sourceImpl: undefined or the inner source
  sPhase,       \* how far initialize() has got
  sCompleted,   \* history: an initialize() has completed successfully
  sLast,        \* the last call: [op, phase it was made in, outcome]
  sOps          \* number of calls made so far

mVars == <<mInputs, mCall>>
pVars == <<pInputs, pPending, pSkip, pListener, pRunning, inner, delivered,
           requested, pRequest, buffered, pLast, pControls, passed, pMemo,
           pOps>>
hVars == <<config, lastReceived, tree, oldRenderState, listeners, calls,
           returned, scanned, lastOp, hLimit, handled, hOps>>
cVars == <<nsCall, rConfig, rOriginal, rLast, rOps>>
sVars == <<sSource, sAssets, sSourceImpl, sPhase, sCompleted, sLast, sOps>>
vars == <<mVars, pVars, hVars, cVars, sVars>>

----------------------------------------------------------------------------
(* Bounds *)

MaxMappers == 2   \* registered mappers
MaxTopics == 2    \* topics in a topic list
MaxMsgs == 2      \* messages in a message list or bucket list
MaxBlocks == 1    \* blocks in a message cache
MaxSubs == 2      \* subscriptions in one request

----------------------------------------------------------------------------
(* Generic helpers *)

Range(s) == {s[i] : i \in 1..Len(s)}

SeqsUpTo(S, n) == UNION {[1..k -> S] : k \in 0..n}

NoDup(s) == \A i, j \in 1..Len(s) : i # j => s[i] # s[j]

RECURSIVE Concat(_)
\* Array.prototype.flat() of a list of lists
Concat(ss) == IF ss = <<>> THEN <<>> ELSE Head(ss) \o Concat(Tail(ss))

\* A JavaScript Map (or the own keys of an object) is kept in insertion
\* order: a sequence of <<key, value>> pairs with distinct keys.
MapKeys(m) == [i \in 1..Len(m) |-> m[i][1]]

MapHas(m, k) == \E i \in 1..Len(m) : m[i][1] = k

MapGet(m, k) == m[CHOOSE i \in 1..Len(m) : m[i][1] = k][2]

MapSet(m, k, v) ==
  IF MapHas(m, k)
    THEN [i \in 1..Len(m) |-> IF m[i][1] = k THEN <<k, v>> ELSE m[i]]
    ELSE Append(m, <<k, v>>)

IsMap(m) == NoDup(MapKeys(m))

RECURSIVE uniq(_)
\* lodash uniq: the first occurrence of every element, in order
uniq(s) ==
  IF s = <<>> THEN <<>>
  ELSE LET r == uniq(SubSeq(s, 1, Len(s) - 1))
           x == s[Len(s)]
       IN IF x \in Range(r) THEN r ELSE Append(r, x)

----------------------------------------------------------------------------
(* Topic mapping engine: data *)

Names == {"A", "B", "C"}

NoName == ""

\* GlobalVariables: two possible bindings of the variables
Variables == {"v1", "v2"}

AnyVariables == ""

\* A Topic: name, schemaName and the optional mappedFromName
Topic(n) == [name |-> n, schemaName |-> "schema", mappedFromName |-> NoName]

\* A MessageEvent
Message(t, r) ==
  [topic |-> t, receiveTime |-> r, message |-> r, schemaName |-> "schema",
   sizeInBytes |-> 8 * r]

\* A SubscribePayload
Subscription(t, p) == [topic |-> t, preloadType |-> p]

\* MappingInputs.topics is `undefined | Topic[]`
NoTopics == [known |-> FALSE, list |-> <<>>]

KnownTopics(l) == [known |-> TRUE, list |-> l]

\* A registered mapper is a callback ({topics, globalVariables}) => Map. The
\* callbacks of the model propose `rules` when the topic `whenTopic` is
\* known (always when NoName) and the variables equal `whenVariables`
\* (always when AnyVariables), and propose nothing otherwise.
Mapper(rules, whenTopic, whenVariables) ==
  [rules |-> rules, whenTopic |-> whenTopic, whenVariables |-> whenVariables]

MapperPool ==
  { Mapper(<< <<"A", "B">> >>, NoName, AnyVariables),
    Mapper(<< <<"A", "C">> >>, NoName, AnyVariables),
    Mapper(<< <<"A", "B">>, <<"C", "B">> >>, "C", AnyVariables),
    Mapper(<< <<"B", "A">> >>, NoName, "v2") }

CallMapper(mapper, args) ==
  IF /\ (mapper.whenTopic = NoName
          \/ \E i \in 1..Len(args.topics) : args.topics[i].name = mapper.whenTopic)
     /\ (mapper.whenVariables = AnyVariables
          \/ mapper.whenVariables = args.globalVariables)
    THEN mapper.rules
    ELSE <<>>

\* The identity sentinel is recognised by reference (mapping === EmptyMapping)
EmptyMapping == [sentinel |-> TRUE, entries |-> <<>>]

----------------------------------------------------------------------------
(* Topic mapping engine: functions *)

RECURSIVE mergeOneNewestFirst(_, _)
\* mergeOne putting the newest proposal in front of the earlier ones
mergeOneNewestFirst(merged, map) ==
  IF map = <<>> THEN merged
  ELSE LET key == Head(map)[1]
           value == Head(map)[2]
           old == IF MapHas(merged, key) THEN MapGet(merged, key) ELSE <<>>
           mergedValues == uniq(<<value>> \o old)
       IN mergeOneNewestFirst(MapSet(merged, key, mergedValues), Tail(map))

RECURSIVE mergeOne(_, _)
\* the inner loop of mergeMappings over the entries of one mapper's map
mergeOne(merged, map) ==
  IF map = <<>> THEN merged
  ELSE LET key == Head(map)[1]
           value == Head(map)[2]
           old == IF MapHas(merged, key) THEN MapGet(merged, key) ELSE <<>>
           mergedValues == uniq(Append(old, value))
       IN mergeOne(MapSet(merged, key, mergedValues), Tail(map))

RECURSIVE mergeFrom(_, _)
mergeFrom(merged, maps) ==
  IF maps = <<>> THEN merged
  ELSE mergeFrom(mergeOne(merged, Head(maps)), Tail(maps))

mergeMappings(maps) == [sentinel |-> FALSE, entries |-> mergeFrom(<<>>, maps)]

\* buildMapping that merges even when no mapper proposes anything
buildMappingAlwaysMerges(inputs) ==
  LET mappings ==
        [i \in 1..Len(inputs.mappers) |->
           CallMapper(inputs.mappers[i],
                      [topics |-> IF inputs.topics.known THEN inputs.topics.list
                                  ELSE <<>>,
                       globalVariables |-> inputs.variables])]
  IN mergeMappings(mappings)

buildMapping(inputs) ==
  LET mappings ==
        [i \in 1..Len(inputs.mappers) |->
           CallMapper(inputs.mappers[i],
                      [topics |-> IF inputs.topics.known THEN inputs.topics.list
                                  ELSE <<>>,
                       globalVariables |-> inputs.variables])]
      anyMappings == \E i \in 1..Len(mappings) : Len(mappings[i]) > 0
  IN IF anyMappings THEN mergeMappings(mappings) ELSE EmptyMapping

RECURSIVE invertOne(_, _, _)
\* the inner loop of invertMapping over the values of one entry
invertOne(inverted, key, values) ==
  IF values = <<>> THEN inverted
  ELSE LET value == Head(values)
           newValues == IF MapHas(inverted, value) THEN MapGet(inverted, value)
                        ELSE <<>>
       IN invertOne(MapSet(inverted, value, Append(newValues, key)), key,
                    Tail(values))

RECURSIVE invertFrom(_, _)
invertFrom(inverted, entries) ==
  IF entries = <<>> THEN inverted
  ELSE invertFrom(invertOne(inverted, Head(entries)[1], Head(entries)[2]),
                  Tail(entries))

\* invertMapping that forgets to invert
invertMappingForward(mapping) == mapping

invertMapping(mapping) ==
  IF mapping = EmptyMapping THEN EmptyMapping
  ELSE [sentinel |-> FALSE, entries |-> invertFrom(<<>>, mapping.entries)]

\* mapMessages that rebuilds the renamed message without its size
mapMessagesNoSize(messages, mapping) ==
  IF mapping = EmptyMapping THEN messages
  ELSE Concat([i \in 1..Len(messages) |->
         LET msg == messages[i]
         IN IF MapHas(mapping.entries, msg.topic)
              THEN LET mappings == MapGet(mapping.entries, msg.topic)
                   IN [j \in 1..Len(mappings) |->
                         [msg EXCEPT !.topic = mappings[j], !.sizeInBytes = 0]]
              ELSE <<msg>>])

mapMessages(messages, mapping) ==
  IF mapping = EmptyMapping THEN messages
  ELSE Concat([i \in 1..Len(messages) |->
         LET msg == messages[i]
         IN IF MapHas(mapping.entries, msg.topic)
              THEN LET mappings == MapGet(mapping.entries, msg.topic)
                   IN [j \in 1..Len(mappings) |->
                         [msg EXCEPT !.topic = mappings[j]]]
              ELSE <<msg>>])

\* mapTopics that renames without recording mappedFromName
mapTopicsNoProvenance(topics, mapping) ==
  IF mapping = EmptyMapping THEN topics
  ELSE Concat([i \in 1..Len(topics) |->
         LET topic == topics[i]
         IN IF MapHas(mapping.entries, topic.name)
              THEN LET mappings == MapGet(mapping.entries, topic.name)
                   IN [j \in 1..Len(mappings) |->
                         [topic EXCEPT !.name = mappings[j]]]
              ELSE <<topic>>])

mapTopics(topics, mapping) ==
  IF mapping = EmptyMapping THEN topics
  ELSE Concat([i \in 1..Len(topics) |->
         LET topic == topics[i]
         IN IF MapHas(mapping.entries, topic.name)
              THEN LET mappings == MapGet(mapping.entries, topic.name)
                   IN [j \in 1..Len(mappings) |->
                         [topic EXCEPT !.name = mappings[j],
                                       !.mappedFromName = topic.name]]
              ELSE <<topic>>])

\* mapTopicSet that keeps the original name next to its targets
mapTopicSetKeepsOriginal(values, mapping) ==
  values \cup UNION { IF MapHas(mapping.entries, value)
                        THEN Range(MapGet(mapping.entries, value))
                        ELSE {value} : value \in values }

\* [...values].flatMap((value) => mapping.get(value) ?? value), collected
\* into a new Set
mapTopicSet(values, mapping) ==
  UNION { IF MapHas(mapping.entries, value)
            THEN Range(MapGet(mapping.entries, value))
            ELSE {value} : value \in values }

mapKeyedTopics(topics, mapping) ==
  IF mapping = EmptyMapping THEN topics
  ELSE [i \in 1..Len(topics) |->
          <<topics[i][1], mapTopicSet(topics[i][2], mapping)>>]

RECURSIVE assignEach(_, _, _)
\* for (const mappedTopic of mappings) acc[mappedTopic] = messages.map(...)
assignEach(acc, mappings, messages) ==
  IF mappings = <<>> THEN acc
  ELSE LET mappedTopic == Head(mappings)
       IN assignEach(
            MapSet(acc, mappedTopic,
                   [j \in 1..Len(messages) |->
                      [messages[j] EXCEPT !.topic = mappedTopic]]),
            Tail(mappings), messages)

RECURSIVE transformBuckets(_, _, _)
\* lodash transform over the own keys of block.messagesByTopic
transformBuckets(acc, buckets, mapping) ==
  IF buckets = <<>> THEN acc
  ELSE LET topic == Head(buckets)[1]
           messages == Head(buckets)[2]
       IN transformBuckets(
            IF MapHas(mapping.entries, topic)
              THEN assignEach(acc, MapGet(mapping.entries, topic), messages)
              ELSE MapSet(acc, topic, messages),
            Tail(buckets), mapping)

\* A block of the cache may be undefined
NoBlock == [absent |-> TRUE, messagesByTopic |-> <<>>, sizeInBytes |-> 0]

Block(buckets, size) ==
  [absent |-> FALSE, messagesByTopic |-> buckets, sizeInBytes |-> size]

mapBlocks(blocks, mapping) ==
  IF mapping = EmptyMapping THEN blocks
  ELSE [i \in 1..Len(blocks) |->
          LET block == blocks[i]
          IN IF ~block.absent
               THEN [block EXCEPT !.messagesByTopic =
                       transformBuckets(<<>>, block.messagesByTopic, mapping)]
               ELSE NoBlock]

\* Progress.messageCache is optional
NoCache == [absent |-> TRUE, startTime |-> 0, blocks |-> <<>>]

Cache(startTime, blocks) ==
  [absent |-> FALSE, startTime |-> startTime, blocks |-> blocks]

mapProgress(progress, mapping) ==
  IF mapping = EmptyMapping \/ progress.messageCache.absent THEN progress
  ELSE [progress EXCEPT !.messageCache.blocks =
          mapBlocks(progress.messageCache.blocks, mapping)]

mapSubscriptions(inputs, subcriptions) ==
  LET mapping == buildMapping(inputs)
  IN IF mapping = EmptyMapping THEN subcriptions
     ELSE LET inverseMapping == invertMapping(mapping)
          IN Concat([i \in 1..Len(subcriptions) |->
               LET sub == subcriptions[i]
               IN IF MapHas(inverseMapping.entries, sub.topic)
                    THEN LET mappings == MapGet(inverseMapping.entries, sub.topic)
                         IN [j \in 1..Len(mappings) |->
                               [sub EXCEPT !.topic = mappings[j]]]
                    ELSE <<sub>>])

\* activeData is optional; publishedTopics and subscribedTopics are optional
NoKeyed == [absent |-> TRUE, map |-> <<>>]

Keyed(m) == [absent |-> FALSE, map |-> m]

NoActiveData ==
  [absent |-> TRUE, topics |-> <<>>, messages |-> <<>>,
   publishedTopics |-> NoKeyed, subscribedTopics |-> NoKeyed]

ActiveData(topics, messages, published, subscribed) ==
  [absent |-> FALSE, topics |-> topics, messages |-> messages,
   publishedTopics |-> published, subscribedTopics |-> subscribed]

PlayerState(id, activeData, cache) ==
  [playerId |-> id, activeData |-> activeData,
   progress |-> [fullyLoadedFractionRanges |-> <<>>, messageCache |-> cache]]

mapPlayerState(inputs, playerState) ==
  LET mapping == buildMapping(inputs)
      activeData == playerState.activeData
      newActiveData ==
        IF activeData.absent THEN activeData
        ELSE [activeData EXCEPT
                !.topics = mapTopics(@, mapping),
                !.messages = mapMessages(@, mapping),
                !.publishedTopics =
                   IF @.absent THEN @
                   ELSE Keyed(mapKeyedTopics(@.map, mapping)),
                !.subscribedTopics =
                   IF @.absent THEN @
                   ELSE Keyed(mapKeyedTopics(@.map, mapping))]
  IN [playerState EXCEPT
        !.activeData = newActiveData,
        !.progress = IF @.messageCache.absent THEN @ ELSE mapProgress(@, mapping)]

----------------------------------------------------------------------------
(* Topic mapping engine: object identity *)
(* Which object a function returns: the reference it was given (the early  *)
(* `return topics` and its like) or a newly allocated one (flatMap, map,    *)
(* new Map, object spread).                                                *)

ArgRef == "arg"   \* the object passed in

NewRef == "new"   \* an object allocated by the call

mapBlocksRef(blocks, mapping) == IF mapping = EmptyMapping THEN blocks ELSE NewRef

mapMessagesRef(messages, mapping) ==
  IF mapping = EmptyMapping THEN messages ELSE NewRef

mapKeyedTopicsRef(topics, mapping) ==
  IF mapping = EmptyMapping THEN topics ELSE NewRef

mapProgressRef(progress, absent, mapping) ==
  IF mapping = EmptyMapping \/ absent THEN progress ELSE NewRef

mapTopicsRef(topics, mapping) == IF mapping = EmptyMapping THEN topics ELSE NewRef

mapSubscriptionsRef(inputs, subcriptions) ==
  IF buildMapping(inputs) = EmptyMapping THEN subcriptions ELSE NewRef

----------------------------------------------------------------------------
(* Inputs of the mapping engine *)

MapperLists == SeqsUpTo(MapperPool, MaxMappers)

TopicLists == {l \in SeqsUpTo({Topic(n) : n \in Names}, MaxTopics) : NoDup(l)}

\* the topic lists the mappers are called with
InputTopics ==
  {NoTopics, KnownTopics(<<>>), KnownTopics(<<Topic("C")>>),
   KnownTopics(<<Topic("A"), Topic("C")>>)}

MessageLists ==
  SeqsUpTo({Message("A", 1), Message("A", 2), Message("B", 1), Message("C", 2)},
           MaxMsgs)

SubscriptionLists ==
  SeqsUpTo({Subscription("A", "full"), Subscription("B", "partial"),
            Subscription("B", "full"), Subscription("C", "full")}, MaxSubs)

\* messagesByTopic: up to two buckets, each holding the messages of its key
BucketMaps ==
  {[i \in 1..Len(ks) |-> <<ks[i], <<Message(ks[i], i)>> >>] :
     ks \in {l \in SeqsUpTo(Names, 2) : NoDup(l)}}

BlockLists ==
  SeqsUpTo({NoBlock} \cup {Block(b, 16 * (Len(b) + 1)) : b \in BucketMaps},
           MaxBlocks)

Caches == {Cache(5, bs) : bs \in BlockLists}

ClientIds == <<"c1", "c2">>

KeyedTopicMaps ==
  {[i \in 1..k |-> <<ClientIds[i], vs[i]>>] :
     k \in 0..2, vs \in [1..2 -> SUBSET Names]}

----------------------------------------------------------------------------
(* The mapping engine applied to bounded inputs. Every engine function is  *)
(* pure: one call per drawn input shows all it does.                       *)

NoCall ==
  [op |-> "none", arg |-> <<>>, mapping |-> EmptyMapping, result |-> <<>>,
   ref |-> NewRef]

MappingInit ==
  /\ mInputs \in [mappers : MapperLists, topics : InputTopics,
                   variables : Variables]
  /\ mCall = NoCall

MappingParked ==
  /\ mInputs = [mappers |-> <<>>, topics |-> NoTopics, variables |-> "v1"]
  /\ mCall = NoCall

CallBuildMapping ==
  /\ mCall = NoCall
  /\ mCall' = [op |-> "buildMapping", arg |-> mInputs,
               mapping |-> buildMapping(mInputs), result |-> <<>>,
               ref |-> NewRef]
  /\ UNCHANGED <<mInputs, pVars, hVars, cVars, sVars>>

CallMapTopics ==
  /\ mCall = NoCall
  /\ \E topics \in TopicLists :
       LET mapping == buildMapping(mInputs)
       IN mCall' = [op |-> "mapTopics", arg |-> topics, mapping |-> mapping,
                    result |-> mapTopics(topics, mapping),
                    ref |-> mapTopicsRef(ArgRef, mapping)]
  /\ UNCHANGED <<mInputs, pVars, hVars, cVars, sVars>>

CallMapMessages ==
  /\ mCall = NoCall
  /\ \E messages \in MessageLists :
       LET mapping == buildMapping(mInputs)
       IN mCall' = [op |-> "mapMessages", arg |-> messages, mapping |-> mapping,
                    result |-> mapMessages(messages, mapping),
                    ref |-> mapMessagesRef(ArgRef, mapping)]
  /\ UNCHANGED <<mInputs, pVars, hVars, cVars, sVars>>

CallMapKeyedTopics ==
  /\ mCall = NoCall
  /\ \E topics \in KeyedTopicMaps :
       LET mapping == buildMapping(mInputs)
       IN mCall' = [op |-> "mapKeyedTopics", arg |-> topics, mapping |-> mapping,
                    result |-> mapKeyedTopics(topics, mapping),
                    ref |-> mapKeyedTopicsRef(ArgRef, mapping)]
  /\ UNCHANGED <<mInputs, pVars, hVars, cVars, sVars>>

CallMapBlocks ==
  /\ mCall = NoCall
  /\ \E blocks \in BlockLists :
       LET mapping == buildMapping(mInputs)
       IN mCall' = [op |-> "mapBlocks", arg |-> blocks, mapping |-> mapping,
                    result |-> mapBlocks(blocks, mapping),
                    ref |-> mapBlocksRef(ArgRef, mapping)]
  /\ UNCHANGED <<mInputs, pVars, hVars, cVars, sVars>>

CallMapProgress ==
  /\ mCall = NoCall
  /\ \E cache \in Caches \cup {NoCache} :
       LET mapping == buildMapping(mInputs)
           progress == [fullyLoadedFractionRanges |-> <<>>, messageCache |-> cache]
       IN mCall' = [op |-> "mapProgress", arg |-> progress, mapping |-> mapping,
                    result |-> mapProgress(progress, mapping),
                    ref |-> mapProgressRef(ArgRef, cache.absent, mapping)]
  /\ UNCHANGED <<mInputs, pVars, hVars, cVars, sVars>>

CallMapSubscriptions ==
  /\ mCall = NoCall
  /\ \E subscriptions \in SubscriptionLists :
       mCall' = [op |-> "mapSubscriptions", arg |-> subscriptions,
                 mapping |-> buildMapping(mInputs),
                 result |-> mapSubscriptions(mInputs, subscriptions),
                 ref |-> mapSubscriptionsRef(mInputs, ArgRef)]
  /\ UNCHANGED <<mInputs, pVars, hVars, cVars, sVars>>

----------------------------------------------------------------------------
(* Values shared by the specifications *)

\* #pendingSubscriptions is `undefined | SubscribePayload[]`; seq is the
\* number of the consumer request the stored list came with
NoPending == [set |-> FALSE, subscriptions |-> <<>>, seq |-> 0]

Pending(subscriptions, seq) ==
  [set |-> TRUE, subscriptions |-> subscriptions, seq |-> seq]

\* the wrapped player: the subscriptions and variables it was last given;
\* seq is the number of the consumer request its subscriptions stem from,
\* fromPending whether they were forwarded from #pendingSubscriptions
InnerPlayer(subscriptions, seq, fromPending, forwards, variables) ==
  [subscriptions |-> subscriptions, seq |-> seq, fromPending |-> fromPending,
   forwards |-> forwards, variables |-> variables]

NothingDelivered ==
  [count |-> 0, state |-> PlayerState("none", NoActiveData, NoCache),
   ref |-> "none"]

\* a player operation and its argument
PlayerOp(op, arg) == [op |-> op, arg |-> arg]

\* an optional message (image, calibration) that is undefined
NoMessage == [absent |-> TRUE, topic |-> NoName, stamp |-> 0, id |-> 0]

\* no render state: before the first emission, or no getRenderState in a step
NoRenderState ==
  [none |-> TRUE, cameraInfo |-> NoMessage, image |-> NoMessage,
   hasAnnotations |-> FALSE, annotationsByNamespacedTopic |-> <<>>]

\* the object no reference points to (undefined)
NoObject == 0

\* the module constant EmptyMapping: one Map object
EmptyMappingObject == 1

\* the #inputs object the constructor allocates
FirstInputsObject == 3

\* the objects allocated by the call numbered `call`: the topic list and the
\* message list of an emitted state, a replaced #inputs, and the results of
\* buildMapping, mapTopics and mapMessages
Allocated(call, which) == 10 * call + which

\* no state has been emitted yet
NothingSeen ==
  [emitted |-> FALSE, state |-> PlayerState("none", NoActiveData, NoCache),
   topics |-> NoObject, messages |-> NoObject]

\* the objects the player holds: #inputs, #inputs.topics, the lists of the
\* inner state last emitted and of the state made from it, and the entries
\* of the memoize-weak caches. `configured` tells that setMappers or
\* setGlobalVariables was called since the last emission. A run that does
\* not keep the record (kept = FALSE) takes lists of equal contents for one
\* object. `beat` alternates with every state the wrapped player emits
\* beyond the operations of the run.
Memo(kept, limit) ==
  [kept |-> kept, limit |-> limit, inputs |-> FirstInputsObject,
   topics |-> NoObject, configured |-> FALSE, seen |-> NothingSeen,
   out |-> [topics |-> NoObject, messages |-> NoObject], cache |-> {},
   beat |-> 0]

PlayerParked ==
  /\ pInputs = [mappers |-> <<>>, topics |-> NoTopics, variables |-> "v1"]
  /\ pPending = NoPending
  /\ pSkip = TRUE
  /\ pListener = FALSE
  /\ pRunning = 0
  /\ inner = InnerPlayer(<<>>, 0, FALSE, 0, "v1")
  /\ delivered = NothingDelivered
  /\ requested = 0
  /\ pRequest = <<>>
  /\ buffered = 0
  /\ pLast = PlayerOp("none", <<>>)
  /\ pControls = {}
  /\ passed = <<>>
  /\ pMemo = Memo(FALSE, 0)
  /\ pOps = 0

\* MessageHandlerConfig.annotations is optional; of an annotations record
\* only the topics whose settings have visible === true matter
NoAnnotationsConfig == [defined |-> FALSE, visible |-> {}]

AnnotationsConfig(visible) == [defined |-> TRUE, visible |-> visible]

HandlerParked ==
  /\ config = [synchronize |-> "undefined", annotations |-> NoAnnotationsConfig,
               imageTopic |-> NoName, calibrationTopic |-> NoName]
  /\ lastReceived = [image |-> NoMessage, cameraInfo |-> NoMessage,
                     annotationsByNamespacedTopic |-> <<>>]
  /\ tree = <<>>
  /\ oldRenderState = NoRenderState
  /\ listeners = <<>>
  /\ calls = <<>>
  /\ returned = NoRenderState
  /\ scanned = <<>>
  /\ lastOp = [op |-> "none"]
  /\ hLimit = 0
  /\ handled = [kept |-> FALSE, messages |-> {}]
  /\ hOps = 0

----------------------------------------------------------------------------
(* MessageHandler: data *)

MaxTime == 2      \* message timestamps range over 1..MaxTime
MaxHandlerOps == 3  \* handler operations in one run

Times == 1..MaxTime

\* namespaced annotation topics (namespaceTopic(topic, schemaName))
AnnTopics == {"X", "Y"}

ImageTopics == {"img1", "img2"}

CalibrationTopics == {"cal1", "cal2"}

ListenerIds == {"l1", "l2"}

\* a normalized image message event; getTimestampFromImage gives its stamp
Image(topic, stamp) == [absent |-> FALSE, topic |-> topic, stamp |-> stamp, id |-> 0]

\* a normalized CameraInfo
CameraInfo(id) == [absent |-> FALSE, topic |-> "cal", stamp |-> 0, id |-> id]

\* an annotation message event: every annotation carries its own stamp
AnnotationMessage(topic, stamps) ==
  [topic |-> topic,
   annotations |-> [i \in 1..Len(stamps) |-> [stamp |-> stamps[i], index |-> i]]]

StampLists ==
  {<<t>> : t \in Times} \cup {l \in {<<t, u>> : t, u \in Times} : l[1] < l[2]}

\* NormalizedAnnotations
Normalized(messageEvent, annotations) ==
  [originalMessage |-> messageEvent, annotations |-> annotations]

\* SynchronizationItem; annotationsByNamespacedTopic is a function whose
\* domain is the set of keys of the Map
Item(image, annotations) ==
  [image |-> image, annotationsByNamespacedTopic |-> annotations]

\* the keys of the AVL tree in ascending order (tree.entries())
RECURSIVE SortedKeys(_)
SortedKeys(keys) ==
  IF keys = {} THEN <<>>
  ELSE LET min == CHOOSE k \in keys : \A o \in keys : k <= o
       IN <<min>> \o SortedKeys(keys \ {min})

\* the tree without the key k
TreeDelete(tr, k) == [t \in DOMAIN tr \ {k} |-> tr[t]]

\* tree.set(k, item)
TreeSet(tr, k, item) ==
  [t \in DOMAIN tr \cup {k} |-> IF t = k THEN item ELSE tr[t]]

\* Map.prototype.set / delete on an annotationsByNamespacedTopic
\* Map.set that forgets every other key
AnnSetOnly(m, topic, v) == [t \in {topic} |-> v]

AnnSet(m, topic, v) == [t \in DOMAIN m \cup {topic} |-> IF t = topic THEN v ELSE m[t]]

AnnKeep(m, keep) == [t \in DOMAIN m \cap keep |-> m[t]]

----------------------------------------------------------------------------
(* MessageHandler: functions *)

visibleAnnotations(cfg) ==
  IF cfg.annotations.defined THEN cfg.annotations.visible ELSE {}

\* hasOnlyVisibleAnnotations without the comparison of the sizes
hasAllVisibleAnnotations(messageState, visible) ==
  \A topic \in visible : topic \in DOMAIN messageState.annotationsByNamespacedTopic

hasOnlyVisibleAnnotations(messageState, visible) ==
  /\ Cardinality(visible) = Cardinality(DOMAIN messageState.annotationsByNamespacedTopic)
  /\ \A topic \in visible : topic \in DOMAIN messageState.annotationsByNamespacedTopic

NoEntry == [found |-> FALSE, key |-> 0]

Entry(k) == [found |-> TRUE, key |-> k]

RECURSIVE scanEntriesKeepFirst(_, _, _, _)
\* scanEntries that stops overwriting validEntry once an entry qualified
scanEntriesKeepFirst(tr, keys, visible, validEntry) ==
  IF keys = <<>> THEN validEntry
  ELSE LET messageState == tr[Head(keys)]
       IN scanEntriesKeepFirst(tr, Tail(keys), visible,
            IF ~validEntry.found
               /\ ~messageState.image.absent
               /\ hasOnlyVisibleAnnotations(messageState, visible)
              THEN Entry(Head(keys))
              ELSE validEntry)

RECURSIVE scanEntries(_, _, _, _)
\* the for loop of findSynchronizedSetAndRemoveOlderItems
scanEntries(tr, keys, visible, validEntry) ==
  IF keys = <<>> THEN validEntry
  ELSE LET messageState == tr[Head(keys)]
       IN scanEntries(tr, Tail(keys), visible,
            IF ~messageState.image.absent
               /\ hasOnlyVisibleAnnotations(messageState, visible)
              THEN Entry(Head(keys))
              ELSE validEntry)

RECURSIVE removeUpToItem(_, _)
\* removeOlderItems that also shifts the winner out of the tree
removeUpToItem(tr, key) ==
  IF DOMAIN tr = {} THEN tr
  ELSE LET minKey == Head(SortedKeys(DOMAIN tr))
       IN IF minKey <= key THEN removeUpToItem(TreeDelete(tr, minKey), key)
          ELSE tr

RECURSIVE removeOlderItems(_, _)
\* the while loop: tree.shift() while the minimum key is less than the winner
removeOlderItems(tr, key) ==
  IF DOMAIN tr = {} THEN tr
  ELSE LET minKey == Head(SortedKeys(DOMAIN tr))
       IN IF minKey < key THEN removeOlderItems(TreeDelete(tr, minKey), key)
          ELSE tr

\* returns the winning entry and the tree it leaves behind
findSynchronizedSetAndRemoveOlderItems(tr, visible) ==
  LET validEntry == scanEntries(tr, SortedKeys(DOMAIN tr), visible, NoEntry)
  IN [validEntry |-> validEntry,
      tree |-> IF validEntry.found THEN removeOlderItems(tr, validEntry.key)
               ELSE tr]

\* returns the render state and the tree getRenderState leaves behind
getRenderState(cfg, last, tr) ==
  IF cfg.synchronize = "true"
    THEN LET r == findSynchronizedSetAndRemoveOlderItems(tr, visibleAnnotations(cfg))
         IN [state |->
               IF r.validEntry.found
                 THEN [none |-> FALSE,
                       cameraInfo |-> last.cameraInfo,
                       image |-> tr[r.validEntry.key].image,
                       hasAnnotations |-> TRUE,
                       annotationsByNamespacedTopic |->
                         tr[r.validEntry.key].annotationsByNamespacedTopic]
                 ELSE [none |-> FALSE,
                       cameraInfo |-> last.cameraInfo,
                       image |-> NoMessage,
                       hasAnnotations |-> FALSE,
                       annotationsByNamespacedTopic |-> <<>>],
             tree |-> r.tree]
    ELSE [state |-> [none |-> FALSE,
                     cameraInfo |-> last.cameraInfo,
                     image |-> last.image,
                     hasAnnotations |-> TRUE,
                     annotationsByNamespacedTopic |-> last.annotationsByNamespacedTopic],
          tree |-> tr]

\* #emitState that does not remember the state it emitted
emitStateForgets(cfg, last, tr, old) ==
  LET r == getRenderState(cfg, last, tr)
  IN /\ returned' = r.state
     /\ scanned' = tr
     /\ tree' = r.tree
     /\ calls' = [i \in 1..Len(listeners) |->
                    [listener |-> listeners[i], newState |-> r.state, oldState |-> old]]
     /\ oldRenderState' = old

\* #emitState on the handler state (cfg, last, tr): getRenderState, every
\* listener called with (state, #oldRenderState), #oldRenderState updated
emitState(cfg, last, tr, old) ==
  LET r == getRenderState(cfg, last, tr)
  IN /\ returned' = r.state
     /\ scanned' = tr
     /\ tree' = r.tree
     /\ calls' = [i \in 1..Len(listeners) |->
                    [listener |-> listeners[i], newState |-> r.state, oldState |-> old]]
     /\ oldRenderState' = r.state

\* the groups of handleAnnotations: the annotations of each stamp, in order
RECURSIVE SelectStamp(_, _)
SelectStamp(annotations, stamp) ==
  IF annotations = <<>> THEN <<>>
  ELSE IF Head(annotations).stamp = stamp
         THEN <<Head(annotations)>> \o SelectStamp(Tail(annotations), stamp)
         ELSE SelectStamp(Tail(annotations), stamp)

\* the loop over the groups that stops after the first group
insertGroupsFirstOnly(tr, stamps, messageEvent, annotations) ==
  IF stamps = <<>> THEN tr
  ELSE LET stamp == Head(stamps)
           item == IF stamp \in DOMAIN tr THEN tr[stamp] ELSE Item(NoMessage, <<>>)
           updated == [item EXCEPT !.annotationsByNamespacedTopic =
                         AnnSet(@, messageEvent.topic,
                                Normalized(messageEvent,
                                           SelectStamp(annotations, stamp)))]
       IN TreeSet(tr, stamp, updated)

RECURSIVE insertGroups(_, _, _, _)
\* the loop over the groups, in order of first occurrence of their stamp
insertGroups(tr, stamps, messageEvent, annotations) ==
  IF stamps = <<>> THEN tr
  ELSE LET stamp == Head(stamps)
           item == IF stamp \in DOMAIN tr THEN tr[stamp] ELSE Item(NoMessage, <<>>)
           updated == [item EXCEPT !.annotationsByNamespacedTopic =
                         AnnSet(@, messageEvent.topic,
                                Normalized(messageEvent,
                                           SelectStamp(annotations, stamp)))]
       IN insertGroups(TreeSet(tr, stamp, updated), Tail(stamps), messageEvent,
                       annotations)

----------------------------------------------------------------------------
(* MessageHandler: operations *)

\* the configs a handler is constructed with
InitConfigs ==
  [synchronize : {"undefined", "true"},
   annotations : {NoAnnotationsConfig, AnnotationsConfig({"X"}),
                  AnnotationsConfig({"X", "Y"})},
   imageTopic : {"img1"},
   calibrationTopic : {"cal1"}]

\* the partial configs setConfig is called with: `has` holds the keys that
\* are present; sameAnnotations says that newConfig.annotations is the very
\* object the handler's config holds
ConfigFields == {"synchronize", "imageTopic", "calibrationTopic", "annotations"}

NewConfig(has, synchronize, imageTopic, calibrationTopic, annotations, same) ==
  [has |-> has, synchronize |-> synchronize, imageTopic |-> imageTopic,
   calibrationTopic |-> calibrationTopic, annotations |-> annotations,
   sameAnnotations |-> same]

OnlyAnnotations(visible, same) ==
  NewConfig({"annotations"}, "undefined", NoName, NoName,
            AnnotationsConfig(visible), same)

NewConfigs ==
  { NewConfig({"synchronize"}, "true", NoName, NoName, NoAnnotationsConfig, FALSE),
    NewConfig({"synchronize"}, "false", NoName, NoName, NoAnnotationsConfig, FALSE),
    \* { synchronize: undefined }: the key is present, the value is not
    NewConfig({"synchronize"}, "undefined", NoName, NoName, NoAnnotationsConfig, FALSE),
    NewConfig({"imageTopic"}, "undefined", "img2", NoName, NoAnnotationsConfig, FALSE),
    NewConfig({"calibrationTopic"}, "undefined", NoName, "cal2", NoAnnotationsConfig,
              FALSE),
    OnlyAnnotations({}, FALSE),
    OnlyAnnotations({"X"}, FALSE),
    OnlyAnnotations({"X"}, TRUE),
    OnlyAnnotations({"X", "Y"}, FALSE),
    NewConfig({"synchronize", "annotations"}, "true", NoName, NoName,
              AnnotationsConfig({"X"}), FALSE),
    NewConfig(ConfigFields, "false", "img1", "cal1", AnnotationsConfig({"Y"}), FALSE) }

\* a handler constructed with one of `configs`, run for `limit` operations
HandlerStart(configs, limit, kept) ==
  /\ config \in configs
  /\ lastReceived = [image |-> NoMessage, cameraInfo |-> NoMessage,
                     annotationsByNamespacedTopic |-> <<>>]
  /\ tree = <<>>
  /\ oldRenderState = NoRenderState
  /\ listeners = <<>>
  /\ calls = <<>>
  /\ returned = NoRenderState
  /\ scanned = <<>>
  /\ lastOp = [op |-> "none"]
  /\ hLimit = limit
  /\ handled = [kept |-> kept, messages |-> {}]
  /\ hOps = 0

HandlerInit == HandlerStart(InitConfigs, MaxHandlerOps, FALSE)

\* what a message puts into the index: an image at its timestamp, an
\* annotation message one batch of its topic at the timestamp of each group
Slots(op, arg) ==
  IF op = "handleImage"
    THEN {[slot |-> "image", stamp |-> arg.stamp]}
  ELSE IF op = "handleAnnotations"
    THEN {[slot |-> arg.topic, stamp |-> arg.annotations[i].stamp] :
            i \in 1..Len(arg.annotations)}
  ELSE {}

Step(op, arg) ==
  /\ hOps < hLimit
  /\ hOps' = hOps + 1
  /\ lastOp' = [op |-> op, arg |-> arg]
  /\ handled' = IF handled.kept
                  THEN [handled EXCEPT !.messages = @ \cup Slots(op, arg)]
                  ELSE handled
  /\ UNCHANGED hLimit

addListener ==
  \E listener \in ListenerIds :
    /\ Step("addListener", listener)
    /\ listeners' = Append(listeners, listener)
    /\ calls' = <<>>
    /\ returned' = NoRenderState
    /\ UNCHANGED <<config, lastReceived, tree, oldRenderState, scanned, mVars, pVars, cVars, sVars>>

removeListener ==
  \E listener \in ListenerIds :
    /\ Step("removeListener", listener)
    /\ listeners' = SelectSeq(listeners, LAMBDA fn : fn # listener)
    /\ calls' = <<>>
    /\ returned' = NoRenderState
    /\ UNCHANGED <<config, lastReceived, tree, oldRenderState, scanned, mVars, pVars, cVars, sVars>>

handleImage ==
  \E topic \in {config.imageTopic}, stamp \in Times :
    LET normalizedImageMessage == Image(topic, stamp)
    IN /\ Step("handleImage", normalizedImageMessage)
       /\ IF config.synchronize # "true"
            THEN LET last == [lastReceived EXCEPT !.image = normalizedImageMessage]
                 IN /\ lastReceived' = last
                    /\ emitState(config, last, tree, oldRenderState)
            ELSE LET item == IF stamp \in DOMAIN tree
                               THEN [tree[stamp] EXCEPT !.image = normalizedImageMessage]
                               ELSE Item(normalizedImageMessage, <<>>)
                 IN /\ UNCHANGED lastReceived
                    /\ emitState(config, lastReceived, TreeSet(tree, stamp, item),
                                 oldRenderState)
       /\ UNCHANGED <<config, listeners, mVars, pVars, cVars, sVars>>

\* handleCameraInfo that keeps the calibration in unsynchronized mode only
handleCameraInfoUnsynchronizedOnly ==
  \E id \in 1..2 :
    LET last == IF config.synchronize # "true"
                  THEN [lastReceived EXCEPT !.cameraInfo = CameraInfo(id)]
                  ELSE lastReceived
    IN /\ Step("handleCameraInfo", CameraInfo(id))
       /\ lastReceived' = last
       /\ emitState(config, last, tree, oldRenderState)
       /\ UNCHANGED <<config, listeners, mVars, pVars, cVars, sVars>>

handleCameraInfo ==
  \E id \in 1..2 :
    LET last == [lastReceived EXCEPT !.cameraInfo = CameraInfo(id)]
    IN /\ Step("handleCameraInfo", CameraInfo(id))
       /\ lastReceived' = last
       /\ emitState(config, last, tree, oldRenderState)
       /\ UNCHANGED <<config, listeners, mVars, pVars, cVars, sVars>>

handleAnnotations ==
  \E topic \in AnnTopics, stamps \in StampLists :
    LET messageEvent == AnnotationMessage(topic, stamps)
        annotations == messageEvent.annotations
    IN /\ Step("handleAnnotations", messageEvent)
       /\ IF config.synchronize # "true"
            THEN LET last == [lastReceived EXCEPT !.annotationsByNamespacedTopic =
                                AnnSet(@, topic, Normalized(messageEvent, annotations))]
                 IN /\ lastReceived' = last
                    /\ emitState(config, last, tree, oldRenderState)
            ELSE /\ UNCHANGED lastReceived
                 /\ emitState(config, lastReceived,
                              insertGroups(tree, uniq(stamps), messageEvent, annotations),
                              oldRenderState)
       /\ UNCHANGED <<config, listeners, mVars, pVars, cVars, sVars>>

\* the loop over tree.values() that forgets to drop the images
clearImagesNowhere(tr) == tr

\* for (const item of this.#tree.values()) item.image = undefined
clearImages(tr) == [t \in DOMAIN tr |-> [tr[t] EXCEPT !.image = NoMessage]]

\* the loop over the index entries that prunes nothing
pruneEntriesNowhere(tr, keep) == tr

\* for (const syncEntry of this.#tree.values()): delete every topic that is
\* not visible in the new annotations
pruneEntries(tr, keep) ==
  [t \in DOMAIN tr |->
     [tr[t] EXCEPT !.annotationsByNamespacedTopic = AnnKeep(@, keep)]]

\* what setConfig leaves behind before it emits
configured(cfg, last, tr, newConfig) ==
  LET has(f) == f \in newConfig.has
      syncChanged == /\ has("synchronize")
                     /\ newConfig.synchronize # "undefined"
                     /\ newConfig.synchronize # cfg.synchronize
      tree1 == IF syncChanged THEN <<>> ELSE tr
      imageChanged == has("imageTopic") /\ cfg.imageTopic # newConfig.imageTopic
      tree2 == IF imageChanged THEN clearImages(tree1) ELSE tree1
      last2 == IF imageChanged THEN [last EXCEPT !.image = NoMessage] ELSE last
      calibrationChanged ==
        has("calibrationTopic") /\ cfg.calibrationTopic # newConfig.calibrationTopic
      last3 == IF calibrationChanged THEN [last2 EXCEPT !.cameraInfo = NoMessage]
               ELSE last2
      prune == /\ has("annotations")
               /\ newConfig.annotations.defined
               /\ cfg.annotations.defined
               /\ ~newConfig.sameAnnotations
      keep == newConfig.annotations.visible
      last4 == IF prune
                 THEN [last3 EXCEPT !.annotationsByNamespacedTopic = AnnKeep(@, keep)]
                 ELSE last3
      tree4 == IF prune THEN pruneEntries(tree2, keep) ELSE tree2
      pruned == \/ DOMAIN last4.annotationsByNamespacedTopic
                     # DOMAIN last3.annotationsByNamespacedTopic
                \/ \E t \in DOMAIN tree2 :
                     DOMAIN tree4[t].annotationsByNamespacedTopic
                       # DOMAIN tree2[t].annotationsByNamespacedTopic
  IN [changed |-> syncChanged \/ imageChanged \/ calibrationChanged \/ pruned,
      last |-> last4,
      tree |-> tree4,
      config |-> [f \in ConfigFields |->
                    IF has(f) THEN newConfig[f] ELSE cfg[f]]]

setConfig ==
  \E newConfig \in NewConfigs :
    \* the same object can only be passed when the handler holds one
    /\ newConfig.sameAnnotations =>
         ("annotations" \in newConfig.has /\ newConfig.annotations = config.annotations)
    /\ LET r == configured(config, lastReceived, tree, newConfig)
       IN /\ Step("setConfig", newConfig)
          /\ config' = r.config
          /\ lastReceived' = r.last
          /\ IF r.changed
               THEN emitState(r.config, r.last, r.tree, oldRenderState)
               ELSE /\ tree' = r.tree
                    /\ calls' = <<>>
                    /\ returned' = NoRenderState
                    /\ UNCHANGED <<oldRenderState, scanned>>
          /\ UNCHANGED <<listeners, mVars, pVars, cVars, sVars>>

\* clear that does not reset #oldRenderState
clearKeepsOldRenderState ==
  LET last == [image |-> NoMessage, cameraInfo |-> NoMessage,
               annotationsByNamespacedTopic |-> <<>>]
  IN /\ Step("clear", <<>>)
     /\ lastReceived' = last
     /\ emitState(config, last, <<>>, oldRenderState)
     /\ UNCHANGED <<config, listeners, mVars, pVars, cVars, sVars>>

clear ==
  LET last == [image |-> NoMessage, cameraInfo |-> NoMessage,
               annotationsByNamespacedTopic |-> <<>>]
  IN /\ Step("clear", <<>>)
     /\ lastReceived' = last
     /\ emitState(config, last, <<>>, NoRenderState)
     /\ UNCHANGED <<config, listeners, mVars, pVars, cVars, sVars>>

\* the public getRenderState called on its own
callGetRenderState ==
  LET r == getRenderState(config, lastReceived, tree)
  IN /\ Step("getRenderState", <<>>)
     /\ returned' = r.state
     /\ scanned' = tree
     /\ tree' = r.tree
     /\ calls' = <<>>
     /\ UNCHANGED <<config, lastReceived, oldRenderState, listeners, mVars, pVars, cVars, sVars>>

----------------------------------------------------------------------------
(* Properties of the MessageHandler *)

Synchronized == config.synchronize = "true"

\* the timestamps of an index whose entry is a complete synchronized set
Complete(tr, visible) ==
  {t \in DOMAIN tr :
     /\ ~tr[t].image.absent
     /\ DOMAIN tr[t].annotationsByNamespacedTopic = visible}

Newest(ts) == CHOOSE t \in ts : \A o \in ts : o <= t

\* a render state that holds the calibration only
CalibrationOnly(state) == state.image.absent /\ ~state.hasAnnotations

\* a render state whose image and annotation batches form one synchronized set
SynchronizedSet(state, visible) ==
  /\ ~state.image.absent
  /\ state.hasAnnotations
  /\ DOMAIN state.annotationsByNamespacedTopic = visible
  /\ \A topic \in DOMAIN state.annotationsByNamespacedTopic :
       LET batch == state.annotationsByNamespacedTopic[topic].annotations
       IN \A i \in 1..Len(batch) : batch[i].stamp = state.image.stamp

\* C1: in synchronized mode getRenderState returns the image and the
\* annotation batches of the greatest timestamp of the index whose entry has
\* an image and exactly the visible annotation topics; a newer entry that is
\* only partial does not replace it.
C1_NewestCompleteEntryWins ==
  (Synchronized /\ ~returned.none) =>
    LET complete == Complete(scanned, visibleAnnotations(config))
    IN complete # {} =>
         /\ returned.image = scanned[Newest(complete)].image
         /\ returned.hasAnnotations
         /\ returned.annotationsByNamespacedTopic =
              scanned[Newest(complete)].annotationsByNamespacedTopic

C1_Witness ==
  /\ Synchronized
  /\ visibleAnnotations(config) = {"X"}
  /\ ~returned.none
  /\ returned.image = Image("img1", 1)
  /\ DOMAIN returned.annotationsByNamespacedTopic = {"X"}
  /\ DOMAIN tree = {1, 2}
  /\ tree[2].image.absent
  /\ DOMAIN tree[2].annotationsByNamespacedTopic = {"X"}

\* C2: in synchronized mode every state returned by getRenderState or handed
\* to a listener is calibration-only, or holds an image with annotation
\* batches that all carry the image's timestamp and whose topics are exactly
\* the visible annotation topics of the config in force.
C2_NoPartialState ==
  (Synchronized /\ ~returned.none) =>
    /\ \/ CalibrationOnly(returned)
       \/ SynchronizedSet(returned, visibleAnnotations(config))
    /\ \A i \in 1..Len(calls) :
         \/ CalibrationOnly(calls[i].newState)
         \/ SynchronizedSet(calls[i].newState, visibleAnnotations(config))

C2_Witness ==
  /\ Synchronized
  /\ Len(calls) = 1
  /\ visibleAnnotations(config) = {"X"}
  /\ SynchronizedSet(calls[1].newState, {"X"})
  /\ Len(calls[1].newState.annotationsByNamespacedTopic["X"].annotations) = 1
  /\ Len(calls[1].newState.annotationsByNamespacedTopic["X"].originalMessage.annotations) = 2

\* C3: after a synchronized getRenderState with a winner at timestamp t the
\* index holds no entry older than t and holds every entry at or after t
\* as it was; without a winner the index is as it was.
C3_EvictsOnlyOlderEntries ==
  (Synchronized /\ ~returned.none) =>
    LET complete == Complete(scanned, visibleAnnotations(config))
    IN IF complete # {}
         THEN /\ DOMAIN tree = {t \in DOMAIN scanned : t >= Newest(complete)}
              /\ \A t \in DOMAIN tree : tree[t] = scanned[t]
         ELSE tree = scanned

\* the synchronization mode: synchronized exactly when synchronize === true
Mode(cfg) == cfg.synchronize = "true"

\* C16: whenever setConfig changes the synchronization mode, from
\* synchronized to unsynchronized or back, the ordered index is empty when
\* the call returns.
C16_ModeChangeClearsIndex ==
  [][(lastOp'.op = "setConfig" /\ Mode(config') # Mode(config)) => tree' = <<>>]_vars

\* setConfig was called with an image topic other than the one in force
ImageTopicChanged ==
  /\ lastOp'.op = "setConfig"
  /\ "imageTopic" \in lastOp'.arg.has
  /\ lastOp'.arg.imageTopic # config.imageTopic

\* the call changes nothing but the image topic
OnlyImageTopicChanged ==
  /\ ImageTopicChanged
  /\ Mode(config') = Mode(config)
  /\ config'.synchronize = config.synchronize
  /\ config'.calibrationTopic = config.calibrationTopic
  /\ "annotations" \notin lastOp'.arg.has

\* C17: when setConfig changes the image topic, the current image and the
\* image of every index entry are removed, so that the state it emits holds
\* no image; the buffered annotation batches, the stored calibration and the
\* timestamps of the index stay as they were.
C17_ImageTopicChangeDropsImages ==
  [][/\ ImageTopicChanged =>
          /\ lastReceived'.image.absent
          /\ \A t \in DOMAIN tree' : tree'[t].image.absent
          /\ ~returned'.none
          /\ returned'.image.absent
     /\ OnlyImageTopicChanged =>
          /\ DOMAIN tree' = DOMAIN tree
          /\ \A t \in DOMAIN tree :
               tree'[t].annotationsByNamespacedTopic =
                 tree[t].annotationsByNamespacedTopic
          /\ lastReceived'.annotationsByNamespacedTopic =
               lastReceived.annotationsByNamespacedTopic
          /\ lastReceived'.cameraInfo = lastReceived.cameraInfo]_vars

C17_Witness ==
  /\ lastOp.op = "setConfig"
  /\ lastOp.arg.has = {"imageTopic"}
  /\ config.imageTopic = "img2"
  /\ Synchronized
  /\ visibleAnnotations(config) = {"X"}
  /\ DOMAIN tree = {1}
  /\ tree[1].image.absent
  /\ DOMAIN tree[1].annotationsByNamespacedTopic = {"X"}
  /\ oldRenderState.image.absent

\* C18: clear() leaves no current image, no calibration, no annotation
\* batches and an empty index, keeps the config and the registered
\* listeners, and the emission it performs hands every listener an
\* undefined previous state.
C18_ClearResets ==
  [][lastOp'.op = "clear" =>
       /\ lastReceived'.image.absent
       /\ lastReceived'.cameraInfo.absent
       /\ lastReceived'.annotationsByNamespacedTopic = <<>>
       /\ tree' = <<>>
       /\ config' = config
       /\ listeners' = listeners
       /\ Len(calls') = Len(listeners)
       /\ \A i \in 1..Len(calls') : calls'[i].oldState.none]_vars

C18_Witness ==
  /\ lastOp.op = "clear"
  /\ hOps = 3
  /\ listeners = <<"l1">>
  /\ Len(calls) = 1
  /\ calls[1].oldState.none
  /\ ~calls[1].newState.none
  /\ calls[1].newState.cameraInfo.absent
  /\ tree = <<>>

\* the step emitted: #emitState ran in it
Emitted == ~returned'.none /\ lastOp'.op # "getRenderState"

\* C19: every emission calls each registered listener, within the call and
\* in registration order, with (newState, previousState); previousState is
\* the newState of the emission before, and undefined for the first
\* emission and in clear(); a removed listener is not called afterwards.
C19_ListenersNotified ==
  [][/\ Emitted =>
          /\ Len(calls') = Len(listeners')
          /\ \A i \in 1..Len(calls') :
               /\ calls'[i].listener = listeners'[i]
               /\ calls'[i].newState = returned'
               /\ calls'[i].oldState =
                    IF lastOp'.op = "clear" THEN NoRenderState ELSE oldRenderState
          /\ oldRenderState' = returned'
     /\ ~Emitted => (calls' = <<>> /\ oldRenderState' = oldRenderState)
     /\ lastOp'.op = "removeListener" =>
          /\ lastOp'.arg \notin Range(listeners')
          /\ \A l \in Range(listeners) \ {lastOp'.arg} : l \in Range(listeners')
     /\ lastOp'.op = "addListener" => listeners' = Append(listeners, lastOp'.arg)
     /\ lastOp'.op \notin {"addListener", "removeListener"} =>
          listeners' = listeners]_vars

C19_Witness ==
  /\ listeners = <<"l2">>
  /\ Len(calls) = 1
  /\ calls[1].listener = "l2"
  /\ calls[1].oldState.cameraInfo = CameraInfo(1)
  /\ calls[1].newState.cameraInfo = CameraInfo(2)

C19_WitnessOrder ==
  /\ listeners = <<"l2", "l1">>
  /\ Len(calls) = 2
  /\ calls[1].listener = "l2"
  /\ calls[2].listener = "l1"
  /\ calls[1].oldState.none

\* handleCameraInfo stores the calibration and emits it, in either mode, and
\* neither creates nor changes an index entry
CalibrationStored ==
  lastOp'.op = "handleCameraInfo" =>
    /\ lastReceived' = [lastReceived EXCEPT !.cameraInfo = lastOp'.arg]
    /\ Emitted
    /\ Len(calls') = Len(listeners)
    /\ \A i \in 1..Len(calls') : calls'[i].newState.cameraInfo = lastOp'.arg
    /\ \A t \in DOMAIN tree' : t \in DOMAIN tree /\ tree'[t] = tree[t]

\* every render state carries the stored calibration
CalibrationIncluded ==
  ~returned'.none => returned'.cameraInfo = lastReceived'.cameraInfo

\* the stored calibration stays until a calibration message, a change of
\* the calibration topic or clear()
CalibrationKept ==
  lastReceived'.cameraInfo # lastReceived.cameraInfo =>
    \/ lastOp'.op \in {"handleCameraInfo", "clear"}
    \/ /\ lastOp'.op = "setConfig"
       /\ config'.calibrationTopic # config.calibrationTopic

\* C20: handleCameraInfo stores the calibration and notifies the listeners
\* in synchronized and in unsynchronized mode and never creates or changes
\* an index entry; the calibration received last is part of every later
\* render state, also of a synchronized state without a winning entry,
\* until the calibration topic changes or clear() is called.
C20_CalibrationAlwaysCurrent ==
  [][CalibrationStored /\ CalibrationIncluded /\ CalibrationKept]_vars

C20_Witness ==
  /\ Synchronized
  /\ lastOp.op = "handleAnnotations"
  /\ ~returned.none
  /\ CalibrationOnly(returned)
  /\ returned.cameraInfo = CameraInfo(2)
  /\ DOMAIN tree = {1}

\* setConfig was given an annotations map
AnnotationsSupplied ==
  /\ lastOp'.op = "setConfig"
  /\ "annotations" \in lastOp'.arg.has
  /\ lastOp'.arg.annotations.defined

\* a topic that was visible and is not visible in the supplied map has no
\* batch left, neither in the current store nor in any index entry
InvisibleBatchesRemoved ==
  AnnotationsSupplied =>
    \A topic \in visibleAnnotations(config) \ lastOp'.arg.annotations.visible :
      /\ topic \notin DOMAIN lastReceived'.annotationsByNamespacedTopic
      /\ \A t \in DOMAIN tree' :
           topic \notin DOMAIN tree'[t].annotationsByNamespacedTopic

\* in synchronized mode an entry with an image and a batch for every topic
\* that was visible qualifies once the visible set has been narrowed: the
\* call emits a synchronized set at least as recent as that entry
QualifiesAfterNarrowing ==
  (/\ AnnotationsSupplied
   /\ Mode(config) /\ Mode(config')
   /\ config'.imageTopic = config.imageTopic
   /\ visibleAnnotations(config') # visibleAnnotations(config)
   /\ visibleAnnotations(config') \subseteq visibleAnnotations(config)) =>
    \A t \in DOMAIN tree :
      (/\ ~tree[t].image.absent
       /\ DOMAIN tree[t].annotationsByNamespacedTopic = visibleAnnotations(config)) =>
        /\ Emitted
        /\ t \in Complete(scanned', visibleAnnotations(config'))
        /\ SynchronizedSet(returned', visibleAnnotations(config'))
        /\ returned'.image.stamp >= t

\* C15: when setConfig supplies an annotations map in which a buffered
\* annotation topic is no longer visible, that topic's batch is removed from
\* the current store and from every index entry, so that an entry holding an
\* image and batches for X and Y qualifies as synchronized right after the
\* visible set is narrowed from {X, Y} to {X}.
C15_NarrowingPrunesBatches ==
  [][InvisibleBatchesRemoved /\ QualifiesAfterNarrowing]_vars

C15_Witness ==
  /\ lastOp.op = "setConfig"
  /\ lastOp.arg.has = {"annotations"}
  /\ lastOp.arg.annotations.visible = {"X"}
  /\ Synchronized
  /\ SynchronizedSet(returned, {"X"})
  /\ returned.image.stamp = 1
  /\ DOMAIN tree = {1}

C15_WitnessStore ==
  /\ lastOp.op = "setConfig"
  /\ lastOp.arg.has = {"annotations"}
  /\ lastOp.arg.annotations.visible = {"X"}
  /\ ~Synchronized
  /\ ~returned.none
  /\ DOMAIN lastReceived.annotationsByNamespacedTopic = {"X"}

\* a message is handled while the handler is not synchronized
UnsynchronizedHandled ==
  /\ config.synchronize # "true"
  /\ lastOp'.op \in {"handleImage", "handleCameraInfo", "handleAnnotations"}

\* the slot of the handled message holds that message, every other slot is
\* what it was
OnlyOwnSlotReplaced ==
  /\ lastOp'.op = "handleImage" =>
       lastReceived' = [lastReceived EXCEPT !.image = lastOp'.arg]
  /\ lastOp'.op = "handleCameraInfo" =>
       lastReceived' = [lastReceived EXCEPT !.cameraInfo = lastOp'.arg]
  /\ lastOp'.op = "handleAnnotations" =>
       /\ lastReceived'.image = lastReceived.image
       /\ lastReceived'.cameraInfo = lastReceived.cameraInfo
       /\ DOMAIN lastReceived'.annotationsByNamespacedTopic =
            DOMAIN lastReceived.annotationsByNamespacedTopic \cup {lastOp'.arg.topic}
       /\ \A topic \in DOMAIN lastReceived'.annotationsByNamespacedTopic :
            lastReceived'.annotationsByNamespacedTopic[topic] =
              IF topic = lastOp'.arg.topic
                THEN Normalized(lastOp'.arg, lastOp'.arg.annotations)
                ELSE lastReceived.annotationsByNamespacedTopic[topic]

\* the emitted render state is the current store, slot by slot
EmitsCurrentStore ==
  /\ Emitted
  /\ returned'.image = lastReceived'.image
  /\ returned'.cameraInfo = lastReceived'.cameraInfo
  /\ returned'.hasAnnotations
  /\ returned'.annotationsByNamespacedTopic = lastReceived'.annotationsByNamespacedTopic

\* C21: in unsynchronized mode the render state is the last received value
\* per slot (image, calibration, one batch per namespaced annotation topic);
\* each handled message replaces only its own slot and triggers an emission.
C21_LastReceivedPerSlot ==
  [][UnsynchronizedHandled =>
       (OnlyOwnSlotReplaced /\ EmitsCurrentStore /\ tree' = tree)]_vars

C21_Witness ==
  /\ ~Synchronized
  /\ lastOp.op = "handleAnnotations"
  /\ lastOp.arg.topic = "Y"
  /\ ~returned.image.absent
  /\ DOMAIN returned.annotationsByNamespacedTopic = {"X", "Y"}
  /\ returned.annotationsByNamespacedTopic["Y"].originalMessage = lastOp.arg

\* the timestamps for which the image and a batch of every visible
\* annotation topic have been delivered
FullyDelivered ==
  {t \in Times :
     /\ [slot |-> "image", stamp |-> t] \in handled.messages
     /\ \A topic \in visibleAnnotations(config) :
          [slot |-> topic, stamp |-> t] \in handled.messages}

\* every delivered annotation message is on a visible topic
OnlyVisibleDelivered ==
  \A m \in handled.messages :
    m.slot = "image" \/ m.slot \in visibleAnnotations(config)

\* C22: in synchronized mode with a fixed config, when every delivered
\* annotation message is on a visible topic, the timestamp of the winning
\* entry after a set of image and annotation messages has been delivered
\* depends on the set only, not on the order of delivery: it is the greatest
\* timestamp for which the image and all visible annotation topics were
\* delivered (there is no winner when there is no such timestamp).
C22_WinnerIndependentOfOrder ==
  (handled.kept /\ hOps > 0 /\ OnlyVisibleDelivered) =>
    IF FullyDelivered = {}
      THEN returned.image.absent
      ELSE /\ SynchronizedSet(returned, visibleAnnotations(config))
           /\ returned.image.stamp = Newest(FullyDelivered)

\* the older timestamp is completed after the newer one has already won
C22_Witness ==
  /\ handled.kept
  /\ OnlyVisibleDelivered
  /\ FullyDelivered = {1, 2}
  /\ visibleAnnotations(config) = {"X"}
  /\ DOMAIN scanned = {1, 2}
  /\ returned.image.stamp = 2

\* a newer partial entry is delivered before the older complete one
C22_WitnessOlderWins ==
  /\ handled.kept
  /\ OnlyVisibleDelivered
  /\ FullyDelivered = {1}
  /\ visibleAnnotations(config) = {"X", "Y"}
  /\ lastOp.op = "handleImage"
  /\ lastOp.arg.stamp = 1
  /\ [slot |-> "image", stamp |-> 2] \in handled.messages
  /\ returned.image.stamp = 1

C3_Witness ==
  /\ Synchronized
  /\ ~returned.none
  /\ returned.image = Image("img1", 2)
  /\ DOMAIN scanned = {1, 2}
  /\ DOMAIN tree = {2}
  /\ tree[2] = scanned[2]

\* handleAnnotations was handled in synchronized mode
SynchronizedAnnotations ==
  /\ lastOp'.op = "handleAnnotations"
  /\ hOps' = hOps + 1
  /\ config.synchronize = "true"

\* the index entry of every stamp of the message holds the annotations of
\* that stamp under the message's topic, next to the image and the batches
\* of the other topics it held before, and no other entry has changed;
\* scanned' is the index after the insertion, before older entries go
GroupsStored ==
  LET messageEvent == lastOp'.arg
      stamps == {messageEvent.annotations[i].stamp :
                   i \in 1..Len(messageEvent.annotations)}
  IN /\ DOMAIN scanned' = DOMAIN tree \cup stamps
     /\ \A t \in DOMAIN tree \ stamps : scanned'[t] = tree[t]
     /\ \A t \in stamps :
          LET before == IF t \in DOMAIN tree THEN tree[t] ELSE Item(NoMessage, <<>>)
              batches == scanned'[t].annotationsByNamespacedTopic
          IN /\ scanned'[t].image = before.image
             /\ DOMAIN batches =
                  DOMAIN before.annotationsByNamespacedTopic \cup {messageEvent.topic}
             /\ \A topic \in DOMAIN batches \ {messageEvent.topic} :
                  batches[topic] = before.annotationsByNamespacedTopic[topic]
             /\ batches[messageEvent.topic].originalMessage = messageEvent
             /\ batches[messageEvent.topic].annotations =
                  SelectSeq(messageEvent.annotations, LAMBDA a : a.stamp = t)

\* the image of every index entry and every annotation stored in it carry
\* the timestamp the entry is stored at
StampsAgree(tr) ==
  \A t \in DOMAIN tr :
    /\ tr[t].image.absent \/ tr[t].image.stamp = t
    /\ \A topic \in DOMAIN tr[t].annotationsByNamespacedTopic :
         LET batch == tr[t].annotationsByNamespacedTopic[topic].annotations
         IN \A i \in 1..Len(batch) : batch[i].stamp = t

\* C31: in synchronized mode handleAnnotations stores the annotations of
\* each timestamp under the message's namespaced topic in the index entry of
\* that timestamp (a new entry if there is none, in place of an earlier
\* batch of the topic, next to the entry's image and the other topics'
\* batches), and at all times the image and the annotations of an index
\* entry carry the timestamp the entry is stored at.
C31_GroupsStoredByStamp ==
  /\ [](StampsAgree(tree) /\ StampsAgree(scanned))
  /\ [][SynchronizedAnnotations => GroupsStored]_vars

\* a message with annotations of two timestamps was handled; one group
\* replaced an earlier batch in an entry holding an image and another topic
C31_Witness ==
  /\ lastOp.op = "handleAnnotations"
  /\ config.synchronize = "true"
  /\ Len(lastOp.arg.annotations) = 2
  /\ \E t \in DOMAIN scanned :
       /\ ~scanned[t].image.absent
       /\ Cardinality(DOMAIN scanned[t].annotationsByNamespacedTopic) = 2
       /\ scanned[t].annotationsByNamespacedTopic[lastOp.arg.topic].originalMessage
            = lastOp.arg

\* setConfig was handled
ConfigSet ==
  /\ lastOp'.op = "setConfig"
  /\ hOps' = hOps + 1

\* the index as setConfig left it, before an emission evicted older entries
IndexAfterSetConfig == IF returned'.none THEN tree' ELSE scanned'

\* the call removed a buffered annotation batch from the store of the last
\* received messages or from an entry that is still in the index
BatchRemoved ==
  \/ DOMAIN lastReceived'.annotationsByNamespacedTopic
       # DOMAIN lastReceived.annotationsByNamespacedTopic
  \/ \E t \in DOMAIN tree \cap DOMAIN IndexAfterSetConfig :
       DOMAIN IndexAfterSetConfig[t].annotationsByNamespacedTopic
         # DOMAIN tree[t].annotationsByNamespacedTopic

\* what the claim counts as a change made by the call
ConfigChange ==
  \/ config'.synchronize # config.synchronize
  \/ config'.imageTopic # config.imageTopic
  \/ config'.calibrationTopic # config.calibrationTopic
  \/ BatchRemoved

\* every key of the partial config has its new value
NewValuesInForce ==
  \A f \in ConfigFields :
    config'[f] = IF f \in lastOp'.arg.has THEN lastOp'.arg[f] ELSE config[f]

\* C32: setConfig calls every listener once if the call changed the
\* synchronize flag, the image topic or the calibration topic or removed a
\* buffered annotation batch, it calls no listener otherwise, and the new
\* config values are in force when it returns.
C32_NotifiesIffChanged ==
  [][ConfigSet =>
       /\ Len(calls') = IF ConfigChange THEN Len(listeners) ELSE 0
       /\ NewValuesInForce]_vars

\* the same, for calls that do not pass a synchronize key without a value
C32_ExceptUndefinedSynchronize ==
  [][(ConfigSet /\ ~("synchronize" \in lastOp'.arg.has
                      /\ lastOp'.arg.synchronize = "undefined")) =>
       /\ Len(calls') = IF ConfigChange THEN Len(listeners) ELSE 0
       /\ NewValuesInForce]_vars

\* one of the calls that can change what the handler would render
RenderingCall ==
  /\ lastOp'.op \in {"handleImage", "handleCameraInfo", "handleAnnotations",
                     "setConfig", "clear"}
  /\ hOps' = hOps + 1

\* what getRenderState() returns when the call has returned
RenderStateOnReturn == getRenderState(config', lastReceived', tree').state

\* the listeners were called in this step, or else in the step before it,
\* with the state that getRenderState() returns now
ListenersUpToDate ==
  IF calls' # <<>>
    THEN \A i \in 1..Len(calls') : calls'[i].newState = RenderStateOnReturn
    ELSE calls # <<>> =>
           \A i \in 1..Len(calls) : calls[i].newState = RenderStateOnReturn

\* C36: when handleImage, handleCameraInfo, handleAnnotations, setConfig or
\* clear returns, the state most recently delivered to the listeners equals
\* what getRenderState() returns at that moment.
C36_DeliveredStateCurrent == [][RenderingCall => ListenersUpToDate]_vars

\* the same for every call but setConfig
C36_ExceptSetConfig ==
  [][(RenderingCall /\ lastOp'.op # "setConfig") => ListenersUpToDate]_vars

MessageCalls == {"handleImage", "handleCameraInfo", "handleAnnotations"}

\* in synchronized mode a message is handled right after another message
\* whose emitted state had an image
NextMessageAfterImage ==
  /\ lastOp.op \in MessageCalls
  /\ lastOp'.op \in MessageCalls
  /\ hOps' = hOps + 1
  /\ config.synchronize = "true"
  /\ ~oldRenderState.none
  /\ ~oldRenderState.image.absent

\* the emitted state has an image that is not older than the one before
ImageNotOlder ==
  /\ ~returned'.image.absent
  /\ returned'.image.stamp >= oldRenderState.image.stamp

\* C37: in synchronized mode, while the config is not changed and clear()
\* is not called, the timestamp of the image in successive emitted states
\* never decreases and a state with an image is never followed by a state
\* without one, whatever messages are handled.
C37_ImageNeverGoesBack == [][NextMessageAfterImage => ImageNotOlder]_vars

\* C37 (amended): the same for sequences in which every annotation message
\* is on a topic that is visible in the config.
C37_ImageNeverGoesBackVisibleOnly ==
  [][(NextMessageAfterImage /\ handled.kept /\ OnlyVisibleDelivered')
       => ImageNotOlder]_vars

\* two successive states with an image were emitted, the second one with a
\* newer image, and an older image arrived after that
C37_Witness ==
  /\ handled.kept
  /\ OnlyVisibleDelivered
  /\ lastOp.op = "handleImage"
  /\ ~returned.image.absent
  /\ lastOp.arg.stamp < returned.image.stamp
  /\ Cardinality(handled.messages) >= 3

----------------------------------------------------------------------------
(* TopicMappingPlayer *)

MaxPlayerOps == 5  \* calls and inner emissions in one run
MaxRunning == 1    \* #onPlayerState invocations suspended at the same time
MaxLiveOps == 3    \* calls in a run whose wrapped player emits without end

\* the mapper lists the player is constructed with or given by setMappers
PlayerMappers ==
  { <<>>,
    <<Mapper(<< <<"A", "B">> >>, NoName, AnyVariables)>>,
    <<Mapper(<< <<"A", "B">> >>, NoName, AnyVariables),
      Mapper(<< <<"C", "B">> >>, NoName, "v2")>> }

\* the subscription requests of the consumer
Requests ==
  { <<Subscription("C", "full")>>,
    <<Subscription("B", "partial"), Subscription("C", "full")>> }

\* the states the wrapped player emits
EmittedStates ==
  { PlayerState("p", NoActiveData, NoCache),
    PlayerState("p", ActiveData(<<Topic("A")>>, <<Message("A", 1)>>, NoKeyed, NoKeyed),
                NoCache),
    PlayerState("p", ActiveData(<<Topic("A"), Topic("C")>>,
                                <<Message("A", 1), Message("C", 2)>>,
                                Keyed(<< <<"c1", {"A", "C"}>> >>), NoKeyed),
                Cache(5, <<Block(<< <<"A", <<Message("A", 1)>> >> >>, 16)>>)) }

\* the optional playback controls of the Player interface
PlaybackControls ==
  {"startPlayback", "pausePlayback", "seekPlayback", "playUntil",
   "setPlaybackSpeed"}

\* wrapped players: a live connection without playback controls, one that
\* can only be started, paused and sped up, and one with all controls
WrappedPlayers ==
  { {}, {"startPlayback", "pausePlayback", "setPlaybackSpeed"}, PlaybackControls }

\* #skipMapping that is never set
skipMappingNever(mappers) == FALSE

\* this.#skipMapping = mappers.length === 0
skipMapping(mappers) == Len(mappers) = 0

\* the player after construction; `kept` switches the record of object
\* identities on and `limit` is the number of operations of a run
PlayerStart(kept, limit) ==
  /\ \E mappers \in PlayerMappers :
       /\ pSkip = skipMapping(mappers)
       /\ pInputs = [mappers |-> mappers, topics |-> NoTopics, variables |-> "v1"]
  /\ pPending = NoPending
  /\ pListener = FALSE
  /\ pRunning = 0
  /\ inner = InnerPlayer(<<>>, 0, FALSE, 0, "v1")
  /\ delivered = NothingDelivered
  /\ requested = 0
  /\ pRequest = <<>>
  /\ buffered = 0
  /\ pLast = PlayerOp("none", <<>>)
  /\ pControls \in WrappedPlayers
  /\ passed = <<>>
  /\ pMemo = Memo(kept, limit)
  /\ pOps = 0

PlayerInit == PlayerStart(FALSE, MaxPlayerOps)

PlayerStep ==
  /\ pOps < pMemo.limit
  /\ pOps' = pOps + 1

\* this.#inputs = { ...this.#inputs, ... } in setMappers and in
\* setGlobalVariables: a new #inputs object
configure(memo, call) ==
  IF memo.kept
    THEN [memo EXCEPT !.inputs = Allocated(call, 3), !.configured = TRUE]
    ELSE memo

\* a memoized function that computes every call anew
memoizeWeakNever(cache, fn, args, computed) ==
  [result |-> computed, cache |-> cache]

\* memoizeWeak(fn)(...args): the result cached for these argument objects,
\* or else `computed`, the object fn returns, which is then cached
memoizeWeak(cache, fn, args, computed) ==
  IF \E e \in cache : e.fn = fn /\ e.args = args
    THEN [result |-> (CHOOSE e \in cache : e.fn = fn /\ e.args = args).result,
          cache |-> cache]
    ELSE [result |-> computed,
          cache |-> cache \cup {[fn |-> fn, args |-> args, result |-> computed]}]

\* the lists of an emitted state may be the objects of the state emitted
\* before it, when their contents are the same
Reuses(memo, playerState) ==
  LET before == memo.seen.state.activeData
      now == playerState.activeData
      both == memo.kept /\ memo.seen.emitted /\ ~before.absent /\ ~now.absent
  IN { r \in [topics : BOOLEAN, messages : BOOLEAN] :
         /\ r.topics => (both /\ before.topics = now.topics)
         /\ r.messages => (both /\ before.messages = now.messages) }

\* the topic list and the message list of the state emitted by `call`
Incoming(memo, playerState, reuse, call) ==
  IF playerState.activeData.absent
    THEN [topics |-> NoObject, messages |-> NoObject]
    ELSE [topics |-> IF reuse.topics THEN memo.seen.topics
                     ELSE Allocated(call, 1),
          messages |-> IF reuse.messages THEN memo.seen.messages
                       ELSE Allocated(call, 2)]

\* #onPlayerState in skip mode: the listener gets playerState itself
passedOn(memo, playerState, in) ==
  [memo EXCEPT !.configured = FALSE,
               !.seen = [emitted |-> TRUE, state |-> playerState,
                         topics |-> in.topics, messages |-> in.messages],
               !.out = in]

\* #onPlayerState in mapping mode: #inputs is replaced when the topic list
\* is another object than #inputs.topics, and mapPlayerState goes through
\* memoBuildMapping, memoMapTopics and memoMapMessages. `inputs` is the
\* value of #inputs after the replacement.
mapped(memo, inputs, playerState, in, call) ==
  LET inputsObject == IF in.topics # memo.topics THEN Allocated(call, 3)
                      ELSE memo.inputs
      mapping ==
        memoizeWeak(memo.cache, "buildMapping", <<inputsObject>>,
                    IF buildMapping(inputs) = EmptyMapping
                      THEN EmptyMappingObject ELSE Allocated(call, 4))
      topics ==
        memoizeWeak(mapping.cache, "mapTopics", <<in.topics, mapping.result>>,
                    IF mapping.result = EmptyMappingObject
                      THEN in.topics ELSE Allocated(call, 5))
      messages ==
        memoizeWeak(topics.cache, "mapMessages",
                    <<in.messages, mapping.result>>,
                    IF mapping.result = EmptyMappingObject
                      THEN in.messages ELSE Allocated(call, 6))
  IN [memo EXCEPT
        !.inputs = inputsObject,
        !.topics = in.topics,
        !.configured = FALSE,
        !.seen = [emitted |-> TRUE, state |-> playerState,
                  topics |-> in.topics, messages |-> in.messages],
        !.out = IF playerState.activeData.absent THEN in
                ELSE [topics |-> topics.result, messages |-> messages.result],
        !.cache = IF playerState.activeData.absent THEN mapping.cache
                  ELSE messages.cache]

setListener ==
  /\ PlayerStep
  /\ ~pListener
  /\ pListener' = TRUE
  /\ pLast' = PlayerOp("setListener", <<>>)
  /\ passed' = <<>>
  /\ UNCHANGED <<pControls, pMemo>>
  /\ UNCHANGED <<pInputs, pPending, pSkip, pRunning, inner, delivered, requested, pRequest,
                 buffered, mVars, hVars, cVars, sVars>>

setMappers ==
  \E mappers \in PlayerMappers :
    /\ PlayerStep
    /\ pInputs' = [pInputs EXCEPT !.mappers = mappers]
    /\ pSkip' = skipMapping(mappers)
    /\ pMemo' = configure(pMemo, pOps + 1)
    /\ pLast' = PlayerOp("setMappers", mappers)
    /\ passed' = <<>>
    /\ UNCHANGED pControls
    /\ UNCHANGED <<pPending, pListener, pRunning, inner, delivered, requested, pRequest,
                   buffered, mVars, hVars, cVars, sVars>>

\* this.#pendingSubscriptions = subscriptions that keeps an earlier request
storePendingKeepFirst(pending, subscriptions, seq) ==
  IF pending.set THEN pending ELSE Pending(subscriptions, seq)

\* this.#pendingSubscriptions = subscriptions
storePending(pending, subscriptions, seq) == Pending(subscriptions, seq)

\* the body of setSubscriptions for the request numbered seq: what the
\* wrapped player and #pendingSubscriptions are afterwards
subscribed(skip, inputs, pending, in, subscriptions, seq, fromPending) ==
  IF skip
    THEN [inner |-> [in EXCEPT !.subscriptions = subscriptions, !.seq = seq,
                               !.fromPending = fromPending,
                               !.forwards = @ + 1],
          pending |-> pending,
          stored |-> FALSE]
    ELSE IF inputs.topics.known
      THEN [inner |-> [in EXCEPT !.subscriptions =
                                    mapSubscriptions(inputs, subscriptions),
                                 !.seq = seq,
                                 !.fromPending = fromPending,
                                 !.forwards = @ + 1],
            pending |-> NoPending,
            stored |-> FALSE]
      ELSE [inner |-> in,
            pending |-> storePending(pending, subscriptions, seq),
            stored |-> TRUE]

setSubscriptions ==
  \E subscriptions \in Requests :
    LET r == subscribed(pSkip, pInputs, pPending, inner, subscriptions,
                        requested + 1, FALSE)
    IN /\ PlayerStep
       /\ requested' = requested + 1
       /\ pRequest' = subscriptions
       /\ inner' = r.inner
       /\ pPending' = r.pending
       /\ buffered' = IF r.stored THEN requested + 1 ELSE buffered
       /\ pLast' = PlayerOp("setSubscriptions", subscriptions)
       /\ passed' = <<>>
       /\ UNCHANGED <<pControls, pMemo>>
       /\ UNCHANGED <<pInputs, pSkip, pListener, pRunning, delivered, mVars, hVars, cVars, sVars>>

\* setGlobalVariables that tells the wrapped player only
setGlobalVariablesInnerOnly ==
  \E globalVariables \in Variables :
    /\ PlayerStep
    /\ inner' = [inner EXCEPT !.variables = globalVariables]
    /\ pLast' = PlayerOp("setGlobalVariables", globalVariables)
    /\ passed' = <<>>
    /\ UNCHANGED <<pInputs, pPending, pSkip, pListener, pRunning, delivered,
                   requested, pRequest, buffered, pControls, pMemo, mVars, hVars, cVars, sVars>>

setGlobalVariables ==
  \E globalVariables \in Variables :
    /\ PlayerStep
    /\ inner' = [inner EXCEPT !.variables = globalVariables]
    /\ pInputs' = [pInputs EXCEPT !.variables = globalVariables]
    /\ pMemo' = configure(pMemo, pOps + 1)
    /\ pLast' = PlayerOp("setGlobalVariables", globalVariables)
    /\ passed' = <<>>
    /\ UNCHANGED pControls
    /\ UNCHANGED <<pPending, pSkip, pListener, pRunning, delivered, requested, pRequest,
                   buffered, mVars, hVars, cVars, sVars>>

\* this.#player.op(arg) that loses the arguments
invokeWithoutArguments(provided, op, arg) ==
  IF provided THEN <<PlayerOp(op, <<>>)>> ELSE <<>>

\* this.#player.op(arg), or this.#player.op?.(arg) for an optional operation
invoke(provided, op, arg) == IF provided THEN <<PlayerOp(op, arg)>> ELSE <<>>

\* a method that only hands its arguments to the wrapped player
passThrough(provided, op, arg) ==
  /\ PlayerStep
  /\ passed' = invoke(provided, op, arg)
  /\ pLast' = PlayerOp(op, arg)
  /\ UNCHANGED <<pInputs, pPending, pSkip, pListener, pRunning, inner, delivered,
                 requested, pRequest, buffered, pControls, pMemo, mVars, hVars, cVars, sVars>>

setPublishers ==
  \E publishers \in {<<>>, <<"A">>} : passThrough(TRUE, "setPublishers", publishers)

setParameter ==
  \E key \in {"k"}, value \in {1, 2} :
    passThrough(TRUE, "setParameter", <<key, value>>)

publish == \E request \in {"A", "B"} : passThrough(TRUE, "publish", request)

callService ==
  \E service \in {"s"}, request \in {1, 2} :
    passThrough(TRUE, "callService", <<service, request>>)

startPlayback ==
  passThrough("startPlayback" \in pControls, "startPlayback", <<>>)

pausePlayback ==
  passThrough("pausePlayback" \in pControls, "pausePlayback", <<>>)

seekPlayback ==
  \E time \in {1}, backfillDuration \in {0, 1} :
    passThrough("seekPlayback" \in pControls, "seekPlayback",
                <<time, backfillDuration>>)

playUntil ==
  \E time \in {1, 2} : passThrough("playUntil" \in pControls, "playUntil", time)

setPlaybackSpeed ==
  \E speedFraction \in {1, 2} :
    passThrough("setPlaybackSpeed" \in pControls, "setPlaybackSpeed",
                speedFraction)

\* #onPlayerState up to `await this.#listener?.(...)`: the wrapped player
\* emits playerState
onPlayerState ==
  \E playerState \in EmittedStates :
   \E reuse \in Reuses(pMemo, playerState) :
    LET in == Incoming(pMemo, playerState, reuse, pOps + 1)
    IN
    /\ PlayerStep
    /\ pListener
    /\ IF pSkip
         THEN /\ delivered' = [count |-> delivered.count + 1, state |-> playerState,
                               ref |-> ArgRef]
              /\ pMemo' = IF pMemo.kept THEN passedOn(pMemo, playerState, in)
                          ELSE pMemo
              /\ UNCHANGED <<pInputs, pRunning>>
         ELSE LET topics == IF playerState.activeData.absent THEN NoTopics
                            ELSE KnownTopics(playerState.activeData.topics)
                  inputs == [pInputs EXCEPT !.topics = topics]
              IN /\ pRunning < MaxRunning
                 /\ pInputs' = inputs
                 /\ delivered' = [count |-> delivered.count + 1,
                                  state |-> mapPlayerState(inputs, playerState),
                                  ref |-> NewRef]
                 /\ pMemo' = IF pMemo.kept
                               THEN mapped(pMemo, inputs, playerState, in,
                                           pOps + 1)
                               ELSE pMemo
                 /\ pRunning' = pRunning + 1
    /\ pLast' = PlayerOp("onPlayerState", playerState)
    /\ passed' = <<>>
    /\ UNCHANGED pControls
    /\ UNCHANGED <<pPending, pSkip, pListener, inner, requested, pRequest, buffered, mVars,
                   hVars, cVars, sVars>>

\* #onPlayerState after the await: the pending subscriptions are applied
resumeOnPlayerState ==
  /\ pRunning > 0
  /\ pRunning' = pRunning - 1
  /\ IF pPending.set /\ pInputs.topics.known
       THEN LET r == subscribed(pSkip, pInputs, pPending, inner,
                                pPending.subscriptions, pPending.seq, TRUE)
            IN /\ inner' = r.inner
               /\ pPending' = r.pending
       ELSE UNCHANGED <<inner, pPending>>
  /\ pLast' = PlayerOp("resume", <<>>)
  /\ passed' = <<>>
  /\ UNCHANGED <<pControls, pMemo>>
  /\ UNCHANGED <<pInputs, pSkip, pListener, delivered, requested, pRequest, buffered, pOps,
                 mVars, hVars, cVars, sVars>>

\* #onPlayerState up to the await, for a wrapped player that goes on
\* emitting states with a topic list whatever else happens; these emissions
\* are not counted as operations of the run
keepsEmitting ==
  \E playerState \in {s \in EmittedStates : ~s.activeData.absent} :
    /\ pListener
    /\ IF pSkip
         THEN /\ delivered' = [delivered EXCEPT !.state = playerState,
                                                !.ref = ArgRef]
              /\ UNCHANGED <<pInputs, pRunning>>
         ELSE LET inputs == [pInputs EXCEPT
                              !.topics = KnownTopics(playerState.activeData.topics)]
              IN /\ pRunning < MaxRunning
                 /\ pInputs' = inputs
                 /\ delivered' = [delivered EXCEPT
                                    !.state = mapPlayerState(inputs, playerState),
                                    !.ref = NewRef]
                 /\ pRunning' = pRunning + 1
    /\ pMemo' = [pMemo EXCEPT !.beat = 1 - @]
    /\ pLast' = PlayerOp("onPlayerState", playerState)
    /\ passed' = <<>>
    /\ UNCHANGED <<pPending, pSkip, pListener, inner, requested, pRequest, buffered,
                   pControls, pOps, mVars, hVars, cVars, sVars>>

----------------------------------------------------------------------------
(* Namespaced topics (namespaceTopic, unnamespacetopic)                    *)
(* A string is the sequence of its UTF-16 code units, each written as a    *)
(* one-character string. LoneSurrogate stands for a surrogate code unit    *)
(* that is not part of a pair.                                             *)

MaxNameLen == 2   \* characters of an exhaustively drawn topic or schema name

LoneSurrogate == "uD800"

\* uriUnreserved: the characters that encodeURIComponent copies
Unreserved == {"a", "b", "c", "u", "G", "R", "S", "2", "3", "5", "A", "F", "_", "."}

\* the characters encodeURI copies as well (uriReserved and "#")
Reserved == {":", "/"}

\* the outcome of a call that may throw a URIError
Threw == [threw |-> TRUE, value |-> <<>>]

Returned(value) == [threw |-> FALSE, value |-> value]

\* "%" followed by the two hexadecimal digits of the UTF-8 octet
Escape(c) ==
  CASE c = ":" -> <<"%", "3", "A">>
    [] c = "%" -> <<"%", "2", "5">>
    [] c = "/" -> <<"%", "2", "F">>

\* the ASCII character of an escape sequence %XY
Octets ==
  { <<"2", "2", "\"">>, <<"2", "3", "#">>, <<"2", "5", "%">>, <<"2", "A", "*">>,
    <<"2", "F", "/">>, <<"3", "2", "2">>, <<"3", "3", "3">>, <<"3", "5", "5">>,
    <<"3", "A", ":">>, <<"3", "F", "?">>, <<"5", "2", "R">>, <<"5", "3", "S">>,
    <<"5", "5", "U">>, <<"5", "A", "Z">>, <<"5", "F", "_">> }

RECURSIVE encodeURI(_)
\* the global encodeURI: reserved characters are copied, not escaped
encodeURI(str) ==
  IF str = <<>> THEN Returned(<<>>)
  ELSE IF Head(str) = LoneSurrogate THEN Threw
  ELSE LET rest == encodeURI(Tail(str))
       IN IF rest.threw THEN Threw
          ELSE Returned((IF Head(str) \in Unreserved \cup Reserved
                           THEN <<Head(str)>>
                           ELSE Escape(Head(str))) \o rest.value)

RECURSIVE encodeURIComponent(_)
\* the global encodeURIComponent: every character that is not unreserved is
\* escaped; a lone surrogate throws a URIError
encodeURIComponent(str) ==
  IF str = <<>> THEN Returned(<<>>)
  ELSE IF Head(str) = LoneSurrogate THEN Threw
  ELSE LET rest == encodeURIComponent(Tail(str))
       IN IF rest.threw THEN Threw
          ELSE Returned((IF Head(str) \in Unreserved
                           THEN <<Head(str)>>
                           ELSE Escape(Head(str))) \o rest.value)

RECURSIVE decodeURIComponent(_)
\* the global decodeURIComponent: every escape sequence is replaced by its
\* character; a "%" that does not start one throws a URIError
decodeURIComponent(str) ==
  IF str = <<>> THEN Returned(<<>>)
  ELSE IF Head(str) = "%"
    THEN IF Len(str) >= 3 /\ \E o \in Octets : o[1] = str[2] /\ o[2] = str[3]
           THEN LET c == (CHOOSE o \in Octets : o[1] = str[2] /\ o[2] = str[3])[3]
                    rest == decodeURIComponent(SubSeq(str, 4, Len(str)))
                IN IF rest.threw THEN Threw ELSE Returned(<<c>> \o rest.value)
           ELSE Threw
    ELSE LET rest == decodeURIComponent(Tail(str))
         IN IF rest.threw THEN Threw ELSE Returned(<<Head(str)>> \o rest.value)

RECURSIVE beforeSeparator(_)
\* topic.split(":")[0]
beforeSeparator(str) ==
  IF str = <<>> \/ Head(str) = ":" THEN <<>>
  ELSE <<Head(str)>> \o beforeSeparator(Tail(str))

\* namespaceTopic whose template leaves the two parts as they are
namespaceTopicUnencoded(topic, schema) ==
  IF LoneSurrogate \in Range(topic) \cup Range(schema) THEN Threw
  ELSE Returned(topic \o <<":">> \o schema)

\* `${encodeURIComponent(topic)}:${encodeURIComponent(schema)}`
namespaceTopic(topic, schema) ==
  LET encodedTopic == encodeURIComponent(topic)
      encodedSchema == encodeURIComponent(schema)
  IN IF encodedTopic.threw \/ encodedSchema.threw THEN Threw
     ELSE Returned(encodedTopic.value \o <<":">> \o encodedSchema.value)

unnamespacetopic(topic) == decodeURIComponent(beforeSeparator(topic))

\* the strings namespaceTopic is applied to: every short string over a
\* plain character, the separator and the escape character, strings that
\* look like escape sequences, and strings that are not well-formed
NameChars == {"a", ":", "%"}

EscapeLookalikes ==
  { <<"%", "2", "5">>, <<"%", "3", "A">>, <<"a", "%", "3", "A">>,
    <<"2", "5">>, <<"/", "a">> }

IllFormed == {<<LoneSurrogate>>, <<"a", LoneSurrogate>>}

NameStrings == SeqsUpTo(NameChars, MaxNameLen) \cup EscapeLookalikes \cup IllFormed

WellFormed(str) == LoneSurrogate \notin Range(str)

NoNamespaceCall ==
  [op |-> "none", topic |-> <<>>, schema |-> <<>>, key |-> Threw, plain |-> Threw]

NamespaceInit == nsCall = NoNamespaceCall

CallNamespaceTopic ==
  /\ nsCall.op = "none"
  /\ \E topic \in NameStrings, schema \in NameStrings :
       nsCall' = [op |-> "namespaceTopic", topic |-> topic, schema |-> schema,
                  key |-> namespaceTopic(topic, schema), plain |-> Threw]
  /\ UNCHANGED <<rConfig, rOriginal, rLast, rOps, mVars, pVars, hVars, sVars>>

\* unnamespacetopic applied to the key the last call produced
CallUnnamespacetopic ==
  /\ nsCall.op = "namespaceTopic"
  /\ ~nsCall.key.threw
  /\ nsCall' = [nsCall EXCEPT !.op = "unnamespacetopic",
                              !.plain = unnamespacetopic(nsCall.key.value)]
  /\ UNCHANGED <<rConfig, rOriginal, rLast, rOps, mVars, pVars, hVars, sVars>>

----------------------------------------------------------------------------
(* Config migration (ThreeDeeRender/config.ts, useMigratedThreeDeeConfig)   *)
(* The two settings maps of a RendererConfig are JavaScript objects: their *)
(* own keys in insertion order, as sequences of <<key, value>> pairs.      *)

MaxMigrations == 2   \* migrateConfigTopicsNodes calls in one run

\* schema names
Grid == <<"G">>

RawImage == <<"R">>

StdString == <<"S", "/", "S">>

UnsupportedSchema == <<"u">>

\* a schema name that is undefined
NoSchema == <<>>

ALL_SUPPORTED_SCHEMAS == {Grid, RawImage, StdString}

\* a Topic of the topic list that guides the migration
MetaTopic(name, schemaName, convertibleTo) ==
  [name |-> name, schemaName |-> schemaName, convertibleTo |-> convertibleTo]

\* topic names of the legacy map
NameA == <<"a">>

NameB == <<"a", ":", "b">>

NameC == <<"c">>

\* the topics a topic list is made of: supported directly, supported after
\* conversion only, not supported, and supported both ways
Metadata ==
  { MetaTopic(NameA, Grid, <<>>),
    MetaTopic(NameA, UnsupportedSchema, <<UnsupportedSchema, RawImage, Grid>>),
    MetaTopic(NameA, UnsupportedSchema, <<>>),
    MetaTopic(NameB, Grid, <<RawImage>>),
    MetaTopic(NameB, UnsupportedSchema, <<RawImage>>),
    MetaTopic(NameC, NoSchema, <<StdString>>) }

\* topic lists of at most two topics, two topics of one name included
MetadataLists ==
  {<<>>} \cup {<<t>> : t \in Metadata} \cup {<<t, u>> : t, u \in Metadata}

RendererConfig(topics, namespacedTopics) ==
  [followMode |-> "follow-pose", topics |-> topics,
   namespacedTopics |-> namespacedTopics]

\* the configs the migration starts from; "s1", "s2", "old" stand for
\* settings objects, "undefined" for a key whose value is undefined
InitialRendererConfigs ==
  { RendererConfig(legacy, namespaced) :
      legacy \in { << <<NameA, "s1">>, <<NameB, "s2">>, <<NameC, "undefined">> >>,
                   << <<NameB, "s2">>, <<NameA, "s1">> >> },
      namespaced \in { <<>>,
                       << <<namespaceTopic(NameA, Grid).value, "old">> >>,
                       << <<namespaceTopic(NameC, RawImage).value, "old">> >> } }

NotFound == [found |-> FALSE]

Found(topic) == [found |-> TRUE, topic |-> topic]

RECURSIVE findLastTopic(_, _)
\* a find that returns the last topic of that name
findLastTopic(topics, key) ==
  IF topics = <<>> THEN NotFound
  ELSE IF topics[Len(topics)].name = key THEN Found(topics[Len(topics)])
  ELSE findLastTopic(SubSeq(topics, 1, Len(topics) - 1), key)

RECURSIVE findTopic(_, _)
\* topics.find((top) => top.name === key)
findTopic(topics, key) ==
  IF topics = <<>> THEN NotFound
  ELSE IF Head(topics).name = key THEN Found(Head(topics))
  ELSE findTopic(Tail(topics), key)

RECURSIVE findSupported(_)
\* topic.convertibleTo?.find((schema) => ALL_SUPPORTED_SCHEMAS.has(schema));
\* NoSchema when there is none
findSupported(schemas) ==
  IF schemas = <<>> THEN NoSchema
  ELSE IF Head(schemas) \in ALL_SUPPORTED_SCHEMAS THEN Head(schemas)
  ELSE findSupported(Tail(schemas))

\* the schema an entry is migrated under, NoSchema when it stays: the body of
\* the loop that prefers a convertible schema
schemaForConvertibleFirst(topic) ==
  IF findSupported(topic.convertibleTo) # NoSchema
    THEN findSupported(topic.convertibleTo)
  ELSE IF topic.schemaName # NoSchema /\ topic.schemaName \in ALL_SUPPORTED_SCHEMAS
    THEN topic.schemaName
  ELSE NoSchema

\* the schema an entry is migrated under, NoSchema when it stays
schemaFor(topic) ==
  IF topic.schemaName # NoSchema /\ topic.schemaName \in ALL_SUPPORTED_SCHEMAS
    THEN topic.schemaName
    ELSE findSupported(topic.convertibleTo)

RECURSIVE placeEntriesKeepLegacy(_, _, _, _)
\* a loop that leaves the migrated entries in the legacy map as well
placeEntriesKeepLegacy(entries, topics, unmigratedTopics, newNamespacedTopics) ==
  IF entries = <<>>
    THEN [threw |-> FALSE, unmigratedTopics |-> unmigratedTopics,
          newNamespacedTopics |-> newNamespacedTopics]
  ELSE LET key == Head(entries)[1]
           settings == Head(entries)[2]
           found == findTopic(topics, key)
           schema == IF found.found THEN schemaFor(found.topic) ELSE NoSchema
       IN IF schema = NoSchema
            THEN placeEntriesKeepLegacy(Tail(entries), topics,
                                        MapSet(unmigratedTopics, key, settings),
                                        newNamespacedTopics)
            ELSE LET mappedKey == namespaceTopic(found.topic.name, schema)
                 IN IF mappedKey.threw
                      THEN [threw |-> TRUE, unmigratedTopics |-> <<>>,
                            newNamespacedTopics |-> <<>>]
                      ELSE placeEntriesKeepLegacy(
                             Tail(entries), topics,
                             MapSet(unmigratedTopics, key, settings),
                             MapSet(newNamespacedTopics, mappedKey.value, settings))

RECURSIVE placeEntries(_, _, _, _)
\* the loop over Object.entries(oldConfig.topics)
placeEntries(entries, topics, unmigratedTopics, newNamespacedTopics) ==
  IF entries = <<>>
    THEN [threw |-> FALSE, unmigratedTopics |-> unmigratedTopics,
          newNamespacedTopics |-> newNamespacedTopics]
  ELSE LET key == Head(entries)[1]
           settings == Head(entries)[2]
           found == findTopic(topics, key)
           schema == IF found.found THEN schemaFor(found.topic) ELSE NoSchema
       IN IF schema = NoSchema
            THEN placeEntries(Tail(entries), topics,
                              MapSet(unmigratedTopics, key, settings),
                              newNamespacedTopics)
            ELSE LET mappedKey == namespaceTopic(found.topic.name, schema)
                 IN IF mappedKey.threw
                      THEN [threw |-> TRUE, unmigratedTopics |-> <<>>,
                            newNamespacedTopics |-> <<>>]
                      ELSE placeEntries(Tail(entries), topics, unmigratedTopics,
                                        MapSet(newNamespacedTopics,
                                               mappedKey.value, settings))

\* a spread that leaves out the second object
spreadFirstOnly(a, b) == a

RECURSIVE spread(_, _)
\* { ...a, ...b }
spread(a, b) == IF b = <<>> THEN a ELSE spread(MapSet(a, Head(b)[1], Head(b)[2]), Tail(b))

\* migrateConfigTopicsNodes that always builds a new config
migrateConfigTopicsNodesAlwaysNew(oldConfig, topics) ==
  LET r == placeEntries(oldConfig.topics, topics, <<>>, <<>>)
  IN [threw |-> r.threw,
      config |-> [oldConfig EXCEPT
                    !.namespacedTopics = spread(@, r.newNamespacedTopics),
                    !.topics = r.unmigratedTopics],
      ref |-> NewRef]

\* the config migrateConfigTopicsNodes returns and whether it is the object
\* it was given
migrateConfigTopicsNodes(oldConfig, topics) ==
  IF Len(topics) = 0
    THEN [threw |-> FALSE, config |-> oldConfig, ref |-> ArgRef]
  ELSE LET r == placeEntries(oldConfig.topics, topics, <<>>, <<>>)
       IN IF r.threw
            THEN [threw |-> TRUE, config |-> oldConfig, ref |-> ArgRef]
          ELSE IF r.newNamespacedTopics = <<>>
            THEN [threw |-> FALSE, config |-> oldConfig, ref |-> ArgRef]
          ELSE [threw |-> FALSE,
                config |-> [oldConfig EXCEPT
                              !.namespacedTopics = spread(@, r.newNamespacedTopics),
                              !.topics = r.unmigratedTopics],
                ref |-> NewRef]

\* repeated: the call had the topic list of the call before it
NoMigration == [op |-> "none", topics |-> <<>>, ref |-> "none", repeated |-> FALSE]

MigrationInit ==
  /\ rConfig \in InitialRendererConfigs
  /\ rOriginal = rConfig.topics
  /\ rLast = NoMigration
  /\ rOps = 0

\* nothing is migrated and no name is namespaced
ConfigParked ==
  /\ nsCall = NoNamespaceCall
  /\ rConfig = RendererConfig(<<>>, <<>>)
  /\ rOriginal = <<>>
  /\ rLast = NoMigration
  /\ rOps = 0

\* useMigratedThreeDeeConfig: the state initializer and every effect that
\* sees a new topic list replace the config by its migration
migrate ==
  /\ rOps < MaxMigrations
  /\ \E topics \in MetadataLists :
       LET r == migrateConfigTopicsNodes(rConfig, topics)
       IN /\ ~r.threw
          /\ rConfig' = r.config
          /\ rLast' = [op |-> "migrate", topics |-> topics, ref |-> r.ref,
                       repeated |-> rLast.op = "migrate" /\ rLast.topics = topics]
  /\ rOps' = rOps + 1
  /\ UNCHANGED <<nsCall, rOriginal, mVars, pVars, hVars, sVars>>

----------------------------------------------------------------------------
(* McapIterableSource (IterablePlayer/Mcap/McapIterableSource.ts)           *)
(* initialize() is an async function: each await is a point where the     *)
(* other methods can be called before it goes on.                          *)

MaxSourceOps == 3   \* calls of the public methods in one run

SourceTypes == {"file", "url"}

\* the inner sources initialize() creates
InnerSources == {"indexed", "unindexed"}

SourceQueries == {"messageIterator", "getBackfillMessages", "fetchAsset"}

NoSourceCall == [op |-> "none", phase |-> "idle", outcome |-> "none"]

\* new McapIterableSource(source); sAssets is the set of inner sources that
\* implement the optional fetchAsset
SourceInit ==
  /\ sSource \in SourceTypes
  /\ sAssets \in SUBSET InnerSources
  /\ sSourceImpl = "undefined"
  /\ sPhase = "idle"
  /\ sCompleted = FALSE
  /\ sLast = NoSourceCall
  /\ sOps = 0

SourceParked ==
  /\ sSource = "file"
  /\ sAssets = {}
  /\ sSourceImpl = "undefined"
  /\ sPhase = "idle"
  /\ sCompleted = FALSE
  /\ sLast = NoSourceCall
  /\ sOps = 0

SourceCall(op, outcome) ==
  /\ sOps < MaxSourceOps
  /\ sOps' = sOps + 1
  /\ sLast' = [op |-> op, phase |-> sPhase, outcome |-> outcome]

\* initialize() is called and runs up to its first await
initialize ==
  /\ sPhase \in {"idle", "ready", "failed"}
  /\ SourceCall("initialize", "pending")
  /\ sPhase' = "opening"
  /\ UNCHANGED <<sSource, sAssets, sSourceImpl, sCompleted, mVars, pVars, hVars, cVars>>

\* await source.file.slice(0, 1).arrayBuffer() / await readable.open():
\* resolves, or rejects and initialize() fails
opened ==
  /\ sPhase = "opening"
  /\ sPhase' \in {"reading", "failed"}
  /\ UNCHANGED <<sSource, sAssets, sSourceImpl, sCompleted, sLast, sOps,
                 mVars, pVars, hVars, cVars>>

\* this.#sourceImpl = new ...; return await this.#sourceImpl.initialize()
\* runs up to the await
assignSourceImpl(impl) ==
  /\ sSourceImpl' = impl
  /\ sPhase' = "initializing"

\* await tryCreateIndexedReader(readable): a reader, or undefined; loading
\* the decompress handlers may reject
indexRead ==
  /\ sPhase = "reading"
  /\ \E reader \in {"reader", "undefined", "rejected"} :
       IF reader = "rejected"
         THEN sPhase' = "failed" /\ UNCHANGED sSourceImpl
       ELSE IF reader = "reader" THEN assignSourceImpl("indexed")
       ELSE IF sSource = "file" THEN assignSourceImpl("unindexed")
       ELSE sPhase' = "fetching" /\ UNCHANGED sSourceImpl
  /\ UNCHANGED <<sSource, sAssets, sCompleted, sLast, sOps, mVars, pVars, hVars, cVars>>

\* await fetch(source.url): rejects, has no body, has no Content-Length
\* header, or gives the stream of the unindexed source
fetched ==
  /\ sPhase = "fetching"
  /\ \E response \in {"rejected", "no body", "no content-length", "stream"} :
       IF response = "stream" THEN assignSourceImpl("unindexed")
       ELSE sPhase' = "failed" /\ UNCHANGED sSourceImpl
  /\ UNCHANGED <<sSource, sAssets, sCompleted, sLast, sOps, mVars, pVars, hVars, cVars>>

\* await this.#sourceImpl.initialize() resolves or rejects
innerInitialized ==
  /\ sPhase = "initializing"
  /\ \E ok \in BOOLEAN :
       /\ sPhase' = IF ok THEN "ready" ELSE "failed"
       /\ sCompleted' = (sCompleted \/ ok)
  /\ UNCHANGED <<sSource, sAssets, sSourceImpl, sLast, sOps, mVars, pVars, hVars, cVars>>

\* if (!this.#sourceImpl) throw ...; return this.#sourceImpl.messageIterator(opt)
messageIterator ==
  /\ SourceCall("messageIterator",
                IF sSourceImpl = "undefined" THEN "threw" ELSE "delegated")
  /\ UNCHANGED <<sSource, sAssets, sSourceImpl, sPhase, sCompleted,
                 mVars, pVars, hVars, cVars>>

getBackfillMessages ==
  /\ SourceCall("getBackfillMessages",
                IF sSourceImpl = "undefined" THEN "threw" ELSE "delegated")
  /\ UNCHANGED <<sSource, sAssets, sSourceImpl, sPhase, sCompleted,
                 mVars, pVars, hVars, cVars>>

fetchAsset ==
  /\ SourceCall("fetchAsset",
                IF sSourceImpl = "undefined" THEN "threw"
                ELSE IF sSourceImpl \notin sAssets THEN "threw"
                ELSE "delegated")
  /\ UNCHANGED <<sSource, sAssets, sSourceImpl, sPhase, sCompleted,
                 mVars, pVars, hVars, cVars>>

----------------------------------------------------------------------------
(* Specifications *)

----------------------------------------------------------------------------
(* Properties of the mapping engine *)

Mapped(mapping, n) == MapHas(mapping.entries, n)

Targets(mapping, n) ==
  IF MapHas(mapping.entries, n) THEN MapGet(mapping.entries, n) ELSE <<>>

Sources(mapping, t) == {k \in Names : t \in Range(Targets(mapping, k))}

RECURSIVE SumUpTo(_, _)
SumUpTo(fan, n) == IF n = 0 THEN 0 ELSE fan[n] + SumUpTo(fan, n - 1)

\* the part of a fanned-out result that stems from the i-th input element
Segment(res, fan, i) == SubSeq(res, SumUpTo(fan, i - 1) + 1, SumUpTo(fan, i))

SameButTopic(a, b) ==
  /\ a.receiveTime = b.receiveTime
  /\ a.message = b.message
  /\ a.schemaName = b.schemaName
  /\ a.sizeInBytes = b.sizeInBytes

\* what the mappers propose for the original name n, in registration order
Proposals(inputs, n) ==
  LET args == [topics |-> IF inputs.topics.known THEN inputs.topics.list ELSE <<>>,
               globalVariables |-> inputs.variables]
  IN Concat([i \in 1..Len(inputs.mappers) |->
       LET map == CallMapper(inputs.mappers[i], args)
       IN IF MapHas(map, n) THEN <<MapGet(map, n)>> ELSE <<>>])

FirstIndex(s, x) == CHOOSE i \in 1..Len(s) : s[i] = x /\ \A j \in 1..(i - 1) : s[j] # x

\* l lists the elements of p once each, in the order of their first occurrence
IsOrderedUnion(l, p) ==
  /\ NoDup(l)
  /\ Range(l) = Range(p)
  /\ \A a, b \in 1..Len(l) : a < b => FirstIndex(p, l[a]) < FirstIndex(p, l[b])

\* res is subs with every subscription to a target name of mp replaced by
\* one subscription per original name mapping to it, other fields kept, and
\* every other subscription unchanged, in order
InverseMapped(subs, res, mp) ==
  LET fan == [i \in 1..Len(subs) |->
                IF Sources(mp, subs[i].topic) = {} THEN 1
                ELSE Cardinality(Sources(mp, subs[i].topic))]
  IN /\ Len(res) = SumUpTo(fan, Len(subs))
     /\ \A i \in 1..Len(subs) :
          LET seg == Segment(res, fan, i)
              src == Sources(mp, subs[i].topic)
          IN IF src = {} THEN seg = <<subs[i]>>
             ELSE /\ {seg[j].topic : j \in 1..Len(seg)} = src
                  /\ \A j \in 1..Len(seg) : seg[j].preloadType = subs[i].preloadType

\* C5: mapSubscriptions turns every subscription to a target name into one
\* subscription per original name that maps to it, keeping the other fields,
\* and passes every other subscription through unchanged, in order; with the
\* mapping {A -> B} a request for B becomes a request for A.
C5_SubscriptionsInverted ==
  mCall.op = "mapSubscriptions" =>
    /\ InverseMapped(mCall.arg, mCall.result, mCall.mapping)
    /\ (/\ mCall.mapping.entries = << <<"A", <<"B">> >> >>
        /\ Len(mCall.arg) = 1
        /\ mCall.arg[1].topic = "B")
         => (Len(mCall.result) = 1 /\ mCall.result[1].topic = "A")

C5_Witness ==
  /\ mCall.op = "mapSubscriptions"
  /\ mCall.mapping.entries = << <<"A", <<"B">> >> >>
  /\ mCall.arg = <<Subscription("B", "partial"), Subscription("C", "full")>>
  /\ mCall.result = <<Subscription("A", "partial"), Subscription("C", "full")>>

\* C6: when the mapping holds A -> [B], every message on A becomes exactly
\* one message on B whose other fields equal the original's, every message on
\* a topic without a mapping is unchanged, and the order is preserved.
C6_MessagesRenamed ==
  mCall.op = "mapMessages" =>
    LET msgs == mCall.arg
        res == mCall.result
        mp == mCall.mapping
        fan == [i \in 1..Len(msgs) |->
                  IF Mapped(mp, msgs[i].topic) THEN Len(Targets(mp, msgs[i].topic))
                  ELSE 1]
    IN /\ Len(res) = SumUpTo(fan, Len(msgs))
       /\ \A i \in 1..Len(msgs) :
            LET seg == Segment(res, fan, i)
                tg == Targets(mp, msgs[i].topic)
            IN /\ ~Mapped(mp, msgs[i].topic) => seg = <<msgs[i]>>
               /\ Len(tg) = 1 =>
                    /\ Len(seg) = 1
                    /\ seg[1].topic = tg[1]
                    /\ SameButTopic(seg[1], msgs[i])

C6_Witness ==
  /\ mCall.op = "mapMessages"
  /\ Targets(mCall.mapping, "A") = <<"B">>
  /\ ~Mapped(mCall.mapping, "C")
  /\ mCall.arg = <<Message("A", 2), Message("C", 2)>>
  /\ mCall.result = <<Message("B", 2), Message("C", 2)>>
  /\ Message("B", 2).sizeInBytes = 16

\* C7: the merged mapping gives every original name the duplicate-free list
\* of the targets the mappers propose for it, in registration order, and a
\* message on that name is fanned out into one copy per target in that order
\* (A -> B and A -> C give [B, C] and two copies, on B then on C).
C7_MergedInRegistrationOrder ==
  /\ mCall.op = "buildMapping" =>
       \A n \in Names :
         /\ Mapped(mCall.mapping, n) <=> Proposals(mCall.arg, n) # <<>>
         /\ IsOrderedUnion(Targets(mCall.mapping, n), Proposals(mCall.arg, n))
  /\ mCall.op = "mapMessages" =>
       LET msgs == mCall.arg
           res == mCall.result
           want == [i \in 1..Len(msgs) |->
                      IF Proposals(mInputs, msgs[i].topic) = <<>> THEN <<msgs[i].topic>>
                      ELSE Targets(mCall.mapping, msgs[i].topic)]
           fan == [i \in 1..Len(msgs) |-> Len(want[i])]
       IN /\ Len(res) = SumUpTo(fan, Len(msgs))
          /\ \A i \in 1..Len(msgs) :
               LET seg == Segment(res, fan, i)
               IN /\ IsOrderedUnion(want[i], IF Proposals(mInputs, msgs[i].topic) = <<>>
                                               THEN <<msgs[i].topic>>
                                               ELSE Proposals(mInputs, msgs[i].topic))
                  /\ \A j \in 1..Len(seg) :
                       seg[j].topic = want[i][j] /\ SameButTopic(seg[j], msgs[i])

C7_Witness ==
  /\ mCall.op = "mapMessages"
  /\ Proposals(mInputs, "A") = <<"B", "C">>
  /\ Targets(mCall.mapping, "A") = <<"B", "C">>
  /\ mCall.arg = <<Message("A", 1)>>
  /\ mCall.result = <<Message("B", 1), Message("C", 1)>>

C9_BlocksRenamed ==
  (mCall.op = "mapProgress" /\ ~mCall.arg.messageCache.absent) =>
    LET blocks == mCall.arg.messageCache.blocks
        res == mCall.result.messageCache.blocks
        mp == mCall.mapping
    IN /\ Len(res) = Len(blocks)
       /\ mCall.result.messageCache.startTime = mCall.arg.messageCache.startTime
       /\ \A i \in 1..Len(blocks) :
            /\ res[i].absent = blocks[i].absent
            /\ res[i].sizeInBytes = blocks[i].sizeInBytes
            /\ \A b \in 1..Len(blocks[i].messagesByTopic) :
                 LET topic == blocks[i].messagesByTopic[b][1]
                     messages == blocks[i].messagesByTopic[b][2]
                     out == res[i].messagesByTopic
                 IN IF Mapped(mp, topic)
                      THEN \A t \in Range(Targets(mp, topic)) :
                             /\ MapHas(out, t)
                             /\ MapGet(out, t) =
                                  [j \in 1..Len(messages) |->
                                     [messages[j] EXCEPT !.topic = t]]
                      ELSE MapHas(out, topic) /\ MapGet(out, topic) = messages

\* C10: mapKeyedTopics keeps the keys and gives every key the set in which
\* each member that has a mapping is replaced by all its targets and every
\* other member is kept.
C10_KeyedTopicsRenamed ==
  mCall.op = "mapKeyedTopics" =>
    LET topics == mCall.arg
        res == mCall.result
        mp == mCall.mapping
    IN /\ MapKeys(res) = MapKeys(topics)
       /\ \A i \in 1..Len(topics) :
            \A x \in Names :
              x \in res[i][2] <=>
                \E v \in topics[i][2] :
                  IF Mapped(mp, v) THEN x \in Range(Targets(mp, v)) ELSE x = v

C10_Witness ==
  /\ mCall.op = "mapKeyedTopics"
  /\ Targets(mCall.mapping, "A") = <<"B", "C">>
  /\ ~Mapped(mCall.mapping, "B")
  /\ mCall.arg = << <<"c1", {"A"}>>, <<"c2", {"A", "B"}>> >>
  /\ mCall.result = << <<"c1", {"B", "C"}>>, <<"c2", {"B", "C"}>> >>

\* no registered mapper proposes a rename for the topics and variables
NoProposals(inputs) ==
  LET args == [topics |-> IF inputs.topics.known THEN inputs.topics.list ELSE <<>>,
               globalVariables |-> inputs.variables]
  IN \A i \in 1..Len(inputs.mappers) : CallMapper(inputs.mappers[i], args) = <<>>

AppliedOps ==
  {"mapTopics", "mapMessages", "mapBlocks", "mapProgress", "mapKeyedTopics",
   "mapSubscriptions"}

\* C11: when no registered mapper proposes a rename the computed mapping is
\* the identity sentinel, and every function applied with it returns the
\* very object it was given: the same reference, hence the same contents.
C11_IdentityReturnsSameObjects ==
  (mCall.op # "none" /\ NoProposals(mInputs)) =>
    /\ mCall.mapping = EmptyMapping
    /\ mCall.op \in AppliedOps => (mCall.ref = ArgRef /\ mCall.result = mCall.arg)

C11_Witness ==
  /\ mCall.op = "mapTopics"
  /\ Len(mInputs.mappers) = 2
  /\ NoProposals(mInputs)
  /\ mCall.arg = <<Topic("A"), Topic("B")>>
  /\ mCall.ref = ArgRef

\* the messages of a block, bucket after bucket
BlockMessages(block) ==
  Concat([b \in 1..Len(block.messagesByTopic) |-> block.messagesByTopic[b][2]])

\* the messages a block holds under the key topic
Bucket(block, topic) ==
  IF MapHas(block.messagesByTopic, topic)
    THEN Range(MapGet(block.messagesByTopic, topic))
    ELSE {}

\* C38: block mapping agrees with message mapping and loses no message: for
\* every block and every topic name, the messages under that key of the
\* mapped block are exactly the messages that mapMessages, applied to the
\* messages of the block, puts on that topic.
C38_BlocksAgreeWithMessages ==
  mCall.op = "mapBlocks" =>
    \A i \in 1..Len(mCall.arg) :
      ~mCall.arg[i].absent =>
        \A topic \in Names :
          Bucket(mCall.result[i], topic) =
            {m \in Range(mapMessages(BlockMessages(mCall.arg[i]), mCall.mapping)) :
               m.topic = topic}

\* the same for blocks in which no target of the mapping is the key of
\* another bucket or the target of another bucket's topic
C38_AgreeWithoutCollisions ==
  mCall.op = "mapBlocks" =>
    \A i \in 1..Len(mCall.arg) :
      LET keys == {mCall.arg[i].messagesByTopic[b][1] :
                     b \in 1..Len(mCall.arg[i].messagesByTopic)}
          targets(k) == IF Mapped(mCall.mapping, k)
                          THEN Range(Targets(mCall.mapping, k)) ELSE {k}
      IN (/\ ~mCall.arg[i].absent
          /\ \A k, l \in keys : k # l => targets(k) \cap targets(l) = {}) =>
           \A topic \in Names :
             Bucket(mCall.result[i], topic) =
               {m \in Range(mapMessages(BlockMessages(mCall.arg[i]), mCall.mapping)) :
                  m.topic = topic}

----------------------------------------------------------------------------
(* Properties of the TopicMappingPlayer *)

MappingActive == ~pSkip

\* a consumer request arriving while mapping is active and no topic list is
\* known is stored and nothing reaches the wrapped player
BufferedNotForwarded ==
  (MappingActive /\ ~pInputs.topics.known /\ requested' = requested + 1) =>
    /\ inner' = inner
    /\ pPending'.set
    /\ pPending'.seq = requested'

\* when an emission that brought a topic list has been handed on, the wrapped
\* player is given the pending request, which is the one buffered last,
\* rewritten with the inverse of the current mapping
PendingForwardedMapped ==
  (pRunning' < pRunning /\ pPending.set /\ pInputs.topics.known) =>
    /\ inner'.forwards = inner.forwards + 1
    /\ inner'.fromPending
    /\ inner'.seq = pPending.seq
    /\ pPending.seq = buffered
    /\ InverseMapped(pPending.subscriptions, inner'.subscriptions,
                     buildMapping(pInputs))

\* whatever is forwarded out of the buffer is the request buffered last
OnlyLatestBufferedForwarded ==
  (inner'.forwards > inner.forwards /\ inner'.fromPending) => inner'.seq = buffered

\* C4: while mapping is active and no topic list has been observed,
\* setSubscriptions forwards nothing; once the wrapped player has emitted a
\* state with a topic list it receives the most recently buffered request
\* with renamed topics replaced by their original names and the others
\* unchanged; a buffered request that was replaced in the buffer is never
\* forwarded.
C4_PendingSubscriptions ==
  [][BufferedNotForwarded /\ PendingForwardedMapped /\ OnlyLatestBufferedForwarded]_vars

C4_Witness ==
  /\ requested = 2
  /\ buffered = 2
  /\ inner.fromPending
  /\ inner.seq = 2
  /\ inner.forwards = 1
  /\ inner.subscriptions = <<Subscription("A", "partial"), Subscription("C", "full")>>
  /\ ~pPending.set

\* #skipMapping mirrors the emptiness of the mapper set
SkipIffNoMappers == pSkip = (pInputs.mappers = <<>>)

\* in skip mode an emitted state reaches the listener as the same object
SkipDeliversSameState ==
  (pSkip /\ pLast'.op = "onPlayerState") =>
    /\ delivered'.count = delivered.count + 1
    /\ delivered'.state = pLast'.arg
    /\ delivered'.ref = ArgRef

\* in skip mode a request is handed to the wrapped player at once, as it is
SkipForwardsRequest ==
  (pSkip /\ pLast'.op = "setSubscriptions") =>
    /\ inner'.forwards = inner.forwards + 1
    /\ inner'.seq = requested'
    /\ inner'.subscriptions = pLast'.arg

\* C12: the player is in skip mode exactly when its mapper set is empty,
\* after construction and after every setMappers; in skip mode every state
\* the wrapped player emits is delivered to the listener as the identical
\* object, and every setSubscriptions request is forwarded to the wrapped
\* player immediately and unchanged.
C12_SkipModePassesThrough ==
  /\ []SkipIffNoMappers
  /\ [][SkipDeliversSameState /\ SkipForwardsRequest]_vars

C12_Witness ==
  /\ pSkip
  /\ pLast.op = "onPlayerState"
  /\ ~pLast.arg.activeData.absent
  /\ delivered.state = pLast.arg
  /\ delivered.ref = ArgRef
  /\ inner.forwards = 1
  /\ inner.subscriptions = <<Subscription("B", "partial"), Subscription("C", "full")>>

PassThroughOps ==
  {"setPublishers", "setParameter", "publish", "callService"} \cup PlaybackControls

\* a pass-through call leaves the mapper set, the variables, the last-seen
\* topic list and the pending request alone
PassThroughFrame ==
  pLast'.op \in PassThroughOps => (pInputs' = pInputs /\ pPending' = pPending)

\* C13 as stated: each of the nine pass-through methods invokes the same
\* operation on the wrapped player exactly once with the same arguments, in
\* skip and in mapping-active mode, and leaves the mapper set, variables,
\* last-seen topic list and pending request unchanged.
C13_PassThroughExactlyOnce ==
  [][(pLast'.op \in PassThroughOps =>
        passed' = <<PlayerOp(pLast'.op, pLast'.arg)>>)
     /\ PassThroughFrame]_vars

\* C13 as amended: setPublishers, setParameter, publish and callService
\* invoke the same operation on the wrapped player exactly once with the
\* same arguments; each of the five playback controls does so when the
\* wrapped player implements that control and invokes nothing when it does
\* not; all nine leave the mapper set, variables, last-seen topic list and
\* pending request unchanged, in skip and in mapping-active mode.
C13_PassThroughWhenProvided ==
  [][(pLast'.op \in PassThroughOps =>
        IF pLast'.op \in PlaybackControls \ pControls
          THEN passed' = <<>>
          ELSE passed' = <<PlayerOp(pLast'.op, pLast'.arg)>>)
     /\ PassThroughFrame]_vars

C13_Witness ==
  /\ ~pSkip
  /\ pPending.set
  /\ pLast = PlayerOp("seekPlayback", <<1, 1>>)
  /\ passed = <<pLast>>

C13_WitnessNotProvided ==
  /\ pLast.op = "startPlayback"
  /\ passed = <<>>

\* setMappers and setGlobalVariables call neither the listener nor the
\* wrapped player's setSubscriptions
UpdatesAreSilent ==
  pLast'.op \in {"setMappers", "setGlobalVariables"} =>
    /\ delivered' = delivered
    /\ inner'.forwards = inner.forwards
    /\ inner'.subscriptions = inner.subscriptions

\* the mapper set and the variables in force are the ones given last
UpdatesTakeEffect ==
  /\ pLast'.op = "setMappers" => pInputs'.mappers = pLast'.arg
  /\ pLast'.op = "setGlobalVariables" => pInputs'.variables = pLast'.arg
  /\ pLast'.op # "setMappers" => pInputs'.mappers = pInputs.mappers
  /\ pLast'.op # "setGlobalVariables" => pInputs'.variables = pInputs.variables

\* the <<name, mappedFromName>> pairs of a topic list
NamePairs(topics) == {<<topics[i].name, topics[i].mappedFromName>> : i \in 1..Len(topics)}

\* the delivered state carries the emitted topics renamed as the mappers
\* propose for the emitted topic list under the variables
MappedWith(mappers, variables, emitted, del) ==
  /\ del.activeData.absent = emitted.activeData.absent
  /\ ~emitted.activeData.absent =>
       LET inp == [mappers |-> mappers,
                   topics |-> KnownTopics(emitted.activeData.topics),
                   variables |-> variables]
       IN NamePairs(del.activeData.topics) =
            UNION { IF Proposals(inp, n) = <<>> THEN {<<n, NoName>>}
                    ELSE {<<t, n>> : t \in Range(Proposals(inp, n))} :
                    n \in {emitted.activeData.topics[i].name :
                             i \in 1..Len(emitted.activeData.topics)} }

EmissionUsesCurrentInputs ==
  pLast'.op = "onPlayerState" =>
    /\ delivered'.count = delivered.count + 1
    /\ MappedWith(pInputs.mappers, pInputs.variables, pLast'.arg, delivered'.state)

\* C14: setMappers and setGlobalVariables never invoke the consumer's
\* listener and never call setSubscriptions on the wrapped player; the
\* first state the wrapped player emits afterwards is mapped with the new
\* mapper set and the new variable bindings.
C14_UpdatesApplyToNextEmission ==
  [][UpdatesAreSilent /\ UpdatesTakeEffect /\ EmissionUsesCurrentInputs]_vars

C14_Witness ==
  /\ pLast.op = "onPlayerState"
  /\ pInputs.variables = "v2"
  /\ Len(pInputs.mappers) = 2
  /\ NamePairs(pLast.arg.activeData.topics) = {<<"A", NoName>>, <<"C", NoName>>}
  /\ NamePairs(delivered.state.activeData.topics) = {<<"B", "A">>, <<"B", "C">>}

\* a step of #onPlayerState in mapping mode, in a run that keeps the record
\* of the objects
MappedEmission ==
  /\ pMemo.kept
  /\ ~pSkip
  /\ pLast'.op = "onPlayerState"
  /\ pOps' = pOps + 1

\* the state emitted in this step carries the topic list and the message
\* list of the state emitted before it, and neither setMappers nor
\* setGlobalVariables was called in between
SameListsAgain ==
  /\ pMemo.seen.emitted
  /\ ~pMemo.configured
  /\ pMemo'.seen.topics # NoObject
  /\ pMemo'.seen.topics = pMemo.seen.topics
  /\ pMemo'.seen.messages = pMemo.seen.messages

\* C30: in mapping mode, when an inner state carries the same topic-list
\* object and the same message-list object as the inner state before it and
\* neither setMappers nor setGlobalVariables was called in between, #inputs
\* is not replaced, the outbound state carries the same mapped topic-list
\* object and the same mapped message-list object as the outbound state
\* before it, and no new result is cached; and an emission replaces #inputs
\* only when the incoming topic list is another object than #inputs.topics.
C30_SameObjectsSameOutput ==
  [][MappedEmission =>
       /\ SameListsAgain =>
            /\ pMemo'.inputs = pMemo.inputs
            /\ pInputs' = pInputs
            /\ pMemo'.out = pMemo.out
            /\ pMemo'.cache = pMemo.cache
       /\ pMemo'.inputs # pMemo.inputs => pMemo'.seen.topics # pMemo.topics]_vars

\* a state was emitted in mapping mode with lists of an earlier emission,
\* and its renamed lists are objects that an earlier call produced
C30_Witness ==
  /\ pMemo.kept
  /\ ~pSkip
  /\ pLast.op = "onPlayerState"
  /\ pMemo.seen.topics # NoObject
  /\ pMemo.seen.topics < Allocated(pOps, 0)
  /\ pMemo.seen.messages < Allocated(pOps, 0)
  /\ pMemo.out.topics \notin {pMemo.seen.topics, NoObject}
  /\ pMemo.out.topics < Allocated(pOps, 0)
  /\ pMemo.out.messages < Allocated(pOps, 0)
  /\ pMemo.inputs < Allocated(pOps, 0)

\* a state was emitted in mapping mode with a topic list that is another
\* object than #inputs.topics was, and #inputs was replaced
C30_WitnessReplaced ==
  /\ pMemo.kept
  /\ ~pSkip
  /\ pLast.op = "onPlayerState"
  /\ pMemo.seen.emitted
  /\ pMemo.inputs = Allocated(pOps, 3)
  /\ pMemo.topics = Allocated(pOps, 1)

\* C33: the wrapped player's subscriptions are never overwritten by an
\* older request: a request forwarded to it is never followed by the
\* forwarding of a request the consumer made earlier.
C33_NoOlderRequestForwarded ==
  [][inner'.forwards > inner.forwards => inner'.seq >= inner.seq]_vars

\* the wrapped player emits states with a topic list again and again
KeepsEmitting == []<><<keepsEmitting>>_vars

\* the request numbered k waits in #pendingSubscriptions
Buffered(k) == pPending.set /\ pPending.seq = k

\* the wrapped player holds the request numbered k or a later one
Forwarded(k) == inner.forwards > 0 /\ inner.seq >= k

\* C34: when the wrapped player keeps emitting states with a topic list, a
\* request buffered while the topic list was awaited is eventually forwarded
\* to the wrapped player, or a later request is, also when setMappers
\* changes the mapper set (to the empty set too) while it is buffered.
C34_BufferedEventuallyForwarded ==
  KeepsEmitting => \A k \in 1..MaxLiveOps : [](Buffered(k) => <>Forwarded(k))

\* the same for runs in which the mapper set stays non-empty from the time
\* the request is buffered
C34_WhileMappingStaysActive ==
  KeepsEmitting =>
    \A k \in 1..MaxLiveOps : []((Buffered(k) /\ []~pSkip) => <>Forwarded(k))

\* C35: whenever mapping is active, a topic list has been observed and no
\* emission is still being handled, the subscriptions the wrapped player
\* holds are the consumer's latest request rewritten with the inverse of the
\* mapping of the current topic list, mapper set and variables.
C35_InnerSubscriptionsCurrent ==
  (MappingActive /\ pInputs.topics.known /\ requested > 0 /\ pRunning = 0) =>
    InverseMapped(pRequest, inner.subscriptions, buildMapping(pInputs))

\* the wrapped player holds the latest request rewritten with the inverse of
\* the mapping in force when the request was forwarded
C35_WitnessForwarded ==
  /\ MappingActive
  /\ pInputs.topics.known
  /\ pRunning = 0
  /\ inner.seq = requested
  /\ pLast.op = "setSubscriptions"
  /\ inner.subscriptions # pRequest
  /\ InverseMapped(pRequest, inner.subscriptions, buildMapping(pInputs))

----------------------------------------------------------------------------
(* Properties of the namespaced topics and of the config migration *)

Least(S) == CHOOSE i \in S : \A j \in S : i <= j

\* the schema the first topic of that name offers: its own when supported,
\* else the first supported one of its convertibleTo list, else none
OfferedSchema(topics, name) ==
  LET named == {i \in 1..Len(topics) : topics[i].name = name}
  IN IF named = {} THEN NoSchema
     ELSE LET topic == topics[Least(named)]
              convertible == {j \in 1..Len(topic.convertibleTo) :
                                topic.convertibleTo[j] \in ALL_SUPPORTED_SCHEMAS}
          IN IF topic.schemaName \in ALL_SUPPORTED_SCHEMAS THEN topic.schemaName
             ELSE IF convertible = {} THEN NoSchema
             ELSE topic.convertibleTo[Least(convertible)]

\* an entry is in the legacy map, or in the namespaced map under (name, schema)
InLegacy(cfg, name, settings) ==
  MapHas(cfg.topics, name) /\ MapGet(cfg.topics, name) = settings

InNamespaced(cfg, name, schema, settings) ==
  /\ MapHas(cfg.namespacedTopics, namespaceTopic(name, schema).value)
  /\ MapGet(cfg.namespacedTopics, namespaceTopic(name, schema).value) = settings

\* C23: migrateConfigTopicsNodes places each legacy entry by the first topic
\* of its name in the supplied list: under (name, schema of that topic) when
\* that schema is supported, else under (name, first supported schema of its
\* convertibleTo list), else (or when no topic has that name) it stays in the
\* legacy map; a directly supported schema takes precedence over any
\* convertibleTo schema.
C23_PlacementOfLegacyEntries ==
  [][\A i \in 1..Len(rConfig.topics) :
       LET name == rConfig.topics[i][1]
           settings == rConfig.topics[i][2]
           schema == OfferedSchema(rLast'.topics, name)
       IN IF schema = NoSchema
            THEN InLegacy(rConfig', name, settings)
            ELSE /\ ~MapHas(rConfig'.topics, name)
                 /\ InNamespaced(rConfig', name, schema, settings)]_vars

\* the first topic migrates under a convertible schema although a later
\* schema of the list is supported too, the second under its own schema
\* although it is convertible
C23_Witness ==
  /\ rLast.op = "migrate"
  /\ rLast.topics =
       << MetaTopic(NameA, UnsupportedSchema, <<UnsupportedSchema, RawImage, Grid>>),
          MetaTopic(NameB, Grid, <<RawImage>>) >>
  /\ InNamespaced(rConfig, NameA, RawImage, "s1")
  /\ InNamespaced(rConfig, NameB, Grid, "s2")
  /\ MapKeys(rConfig.topics) = <<NameC>>

\* no legacy entry can be migrated with the supplied topic list
NothingToMigrate ==
  \A i \in 1..Len(rConfig.topics) :
    OfferedSchema(rLast'.topics, rConfig.topics[i][1]) = NoSchema

\* C24: if the supplied topic list is empty or no legacy entry can be
\* migrated, migrateConfigTopicsNodes returns the very config object it was
\* given, with neither map changed.
C24_NothingMigratedSameObject ==
  [][(rLast'.topics = <<>> \/ NothingToMigrate) =>
       (rLast'.ref = ArgRef /\ rConfig' = rConfig)]_vars

C24_Witness ==
  /\ rLast.op = "migrate"
  /\ rLast.topics = <<MetaTopic(NameA, UnsupportedSchema, <<>>)>>
  /\ rLast.ref = ArgRef
  /\ MapHas(rConfig.topics, NameA)

C24_WitnessEmptyList ==
  /\ rLast.op = "migrate"
  /\ rLast.topics = <<>>
  /\ rLast.ref = ArgRef
  /\ rOps = 2
  /\ rConfig.topics # rOriginal

\* the keys of the namespaced map that hold the entry (name, settings)
NamespacedKeysOf(cfg, name, settings) ==
  {i \in 1..Len(cfg.namespacedTopics) :
     /\ unnamespacetopic(cfg.namespacedTopics[i][1]) = Returned(name)
     /\ cfg.namespacedTopics[i][2] = settings}

\* C25: after any sequence of migrateConfigTopicsNodes calls, every entry of
\* the original legacy map is in exactly one of the two maps, either in the
\* legacy map under its topic name or in the namespaced map under one key
\* that un-namespaces to its topic name, with its settings value unchanged.
C25_EntryInExactlyOneMap ==
  \A i \in 1..Len(rOriginal) :
    LET name == rOriginal[i][1]
        settings == rOriginal[i][2]
        keys == NamespacedKeysOf(rConfig, name, settings)
    IN \/ InLegacy(rConfig, name, settings) /\ keys = {}
       \/ ~MapHas(rConfig.topics, name) /\ Cardinality(keys) = 1

\* two calls have moved every entry, one of them over a namespaced entry
\* that was there before
C25_Witness ==
  /\ rOps = 2
  /\ Len(rOriginal) = 3
  /\ rConfig.topics = <<>>
  /\ Len(rConfig.namespacedTopics) = 3
  /\ InNamespaced(rConfig, NameC, StdString, "undefined")

\* some topic of the list has that name and a supported schema, its own or a
\* convertible one
SomeTopicSupported(topics, name) ==
  \E i \in 1..Len(topics) :
    /\ topics[i].name = name
    /\ \/ topics[i].schemaName \in ALL_SUPPORTED_SCHEMAS
       \/ \E j \in 1..Len(topics[i].convertibleTo) :
            topics[i].convertibleTo[j] \in ALL_SUPPORTED_SCHEMAS

\* no call puts a name into the legacy map
NeverReturns ==
  \A i \in 1..Len(rConfig'.topics) : MapHas(rConfig.topics, rConfig'.topics[i][1])

\* a legacy entry left un-migrated by one call is migrated by the first later
\* call whose topic list contains a topic of that name with a supported
\* schema, and a migrated entry never returns to the legacy map
C26_MigratedBySomeSupportedTopic ==
  [][/\ NeverReturns
     /\ rOps >= 1 =>
          \A i \in 1..Len(rConfig.topics) :
            LET name == rConfig.topics[i][1]
            IN IF SomeTopicSupported(rLast'.topics, name)
                 THEN ~MapHas(rConfig'.topics, name)
                 ELSE MapHas(rConfig'.topics, name)]_vars

\* C26: a legacy entry left un-migrated by one call is migrated by the first
\* later call in whose topic list the first topic of that name has a
\* supported (direct or convertible) schema, and an entry once moved to the
\* namespaced map never returns to the legacy map on any later call.
C26_MigratedByFirstTopicOfName ==
  [][/\ NeverReturns
     /\ rOps >= 1 =>
          \A i \in 1..Len(rConfig.topics) :
            LET name == rConfig.topics[i][1]
            IN IF OfferedSchema(rLast'.topics, name) # NoSchema
                 THEN /\ ~MapHas(rConfig'.topics, name)
                      /\ NamespacedKeysOf(rConfig', name, rConfig.topics[i][2]) # {}
                 ELSE InLegacy(rConfig', name, rConfig.topics[i][2])]_vars

\* the first call migrated nothing of NameA, the second one migrates it
C26_Witness ==
  /\ rOps = 2
  /\ rLast.ref = NewRef
  /\ MapKeys(rConfig.namespacedTopics) = <<namespaceTopic(NameA, Grid).value>>
  /\ InNamespaced(rConfig, NameA, Grid, "s1")
  /\ Len(rConfig.topics) = Len(rOriginal) - 1

\* unnamespacetopic(namespaceTopic(topic, schema)) equals topic for every
\* topic and schema string
C27_RoundTripEveryString ==
  /\ nsCall.op = "namespaceTopic" => ~nsCall.key.threw
  /\ nsCall.op = "unnamespacetopic" => nsCall.plain = Returned(nsCall.topic)

\* C27: unnamespacetopic(namespaceTopic(topic, schema)) equals topic for
\* every topic and schema string without a lone surrogate, including topics
\* and schemas that contain ':' or '%' characters; namespaceTopic throws for
\* a string with a lone surrogate.
C27_RoundTripWellFormed ==
  /\ nsCall.op = "namespaceTopic" =>
       (nsCall.key.threw <=> ~(WellFormed(nsCall.topic) /\ WellFormed(nsCall.schema)))
  /\ nsCall.op = "unnamespacetopic" => nsCall.plain = Returned(nsCall.topic)

C27_Witness ==
  /\ nsCall.op = "unnamespacetopic"
  /\ nsCall.topic = <<":", "%">>
  /\ nsCall.schema = <<"%", ":">>
  /\ nsCall.plain = Returned(<<":", "%">>)

C27_WitnessLookalike ==
  /\ nsCall.op = "unnamespacetopic"
  /\ nsCall.topic = <<"%", "3", "A">>
  /\ nsCall.plain = Returned(<<"%", "3", "A">>)

\* C28: namespaceTopic is injective: two (topic, schema) pairs produce the
\* same namespaced key only if they have the same topic and the same schema;
\* the only literal ':' in the key is the separator.
C28_NamespaceTopicInjective ==
  (nsCall.op = "namespaceTopic" /\ ~nsCall.key.threw) =>
    /\ Cardinality({i \in 1..Len(nsCall.key.value) : nsCall.key.value[i] = ":"}) = 1
    /\ \A topic \in NameStrings, schema \in NameStrings :
         namespaceTopic(topic, schema) = nsCall.key =>
           (topic = nsCall.topic /\ schema = nsCall.schema)

\* a topic that ends with the separator, a schema that starts with it
C28_Witness ==
  /\ nsCall.op = "namespaceTopic"
  /\ nsCall.topic = <<"a", ":">>
  /\ nsCall.schema = <<":", "a">>
  /\ nsCall.key = Returned(<<"a", "%", "3", "A", ":", "%", "3", "A", "a">>)

\* the entry i of the namespaced map is in the next config as it was
EntryKept(i) ==
  /\ MapHas(rConfig'.namespacedTopics, rConfig.namespacedTopics[i][1])
  /\ MapGet(rConfig'.namespacedTopics, rConfig.namespacedTopics[i][1]) =
       rConfig.namespacedTopics[i][2]

\* C39: migrateConfigTopicsNodes never changes or removes an entry that is
\* already in the namespaced map: under every key of the input's
\* namespacedTopics the output holds the same settings value, and every
\* config field other than topics and namespacedTopics is unchanged.
C39_NamespacedEntriesKept ==
  [][/\ \A i \in 1..Len(rConfig.namespacedTopics) : EntryKept(i)
     /\ rConfig'.followMode = rConfig.followMode]_vars

\* the same for the keys under which the call places no legacy entry
C39_KeptUnlessMigratedOver ==
  [][/\ \A i \in 1..Len(rConfig.namespacedTopics) :
          \/ EntryKept(i)
          \/ \E j \in 1..Len(rConfig.topics) :
               LET name == rConfig.topics[j][1]
                   schema == OfferedSchema(rLast'.topics, name)
               IN /\ schema # NoSchema
                  /\ namespaceTopic(name, schema).value = rConfig.namespacedTopics[i][1]
                  /\ MapGet(rConfig'.namespacedTopics, rConfig.namespacedTopics[i][1]) =
                       rConfig.topics[j][2]
     /\ rConfig'.followMode = rConfig.followMode]_vars

\* C40: migration is idempotent for a fixed topic list: a call of
\* migrateConfigTopicsNodes with the topic list of the call before it returns
\* the very config object it was given and moves nothing.
C40_SecondPassMovesNothing ==
  [][(rLast.op = "migrate" /\ rLast'.topics = rLast.topics) =>
       (rLast'.ref = ArgRef /\ rConfig' = rConfig)]_vars

\* the first pass moved an entry and left one, the second pass with the same
\* topic list returned its argument
C40_Witness ==
  /\ rOps = 2
  /\ rLast.repeated
  /\ rLast.topics # <<>>
  /\ rLast.ref = ArgRef
  /\ rConfig.topics # rOriginal
  /\ rConfig.topics # <<>>

----------------------------------------------------------------------------
(* Properties of the McapIterableSource *)

\* C29: messageIterator, getBackfillMessages and fetchAsset raise an error
\* and are never delegated to an inner source whenever initialize() has not
\* yet completed successfully (never called, still in progress, or failed).
C29_UninitializedQueriesThrow ==
  [][(sLast'.op \in SourceQueries /\ sOps' = sOps + 1 /\ ~sCompleted) =>
       sLast'.outcome = "threw"]_vars

\* what the guards do ensure: a query throws as long as no initialize() has
\* got as far as creating the inner source
ThrowsBeforeInnerSourceCreated ==
  [][(sLast'.op \in SourceQueries /\ sOps' = sOps + 1
      /\ sSourceImpl = "undefined") => sLast'.outcome = "threw"]_vars

----------------------------------------------------------------------------
(* The specifications: each parks the components it does not run *)

InitMapping == MappingInit /\ PlayerParked /\ HandlerParked /\ ConfigParked
  /\ SourceParked

NextMapping ==
  \/ CallBuildMapping
  \/ CallMapTopics
  \/ CallMapMessages
  \/ CallMapKeyedTopics
  \/ CallMapBlocks
  \/ CallMapProgress
  \/ CallMapSubscriptions

SpecMapping == InitMapping /\ [][NextMapping]_vars

InitHandler == HandlerInit /\ MappingParked /\ PlayerParked /\ ConfigParked
  /\ SourceParked

NextHandler ==
  \/ addListener
  \/ removeListener
  \/ handleImage
  \/ handleCameraInfo
  \/ handleAnnotations
  \/ setConfig
  \/ clear
  \/ callGetRenderState

SpecHandler == InitHandler /\ [][NextHandler]_vars

\* the handler with both annotation topics visible, fed with messages and
\* reconfigured, one operation longer
InitNarrowing ==
  /\ HandlerStart({cfg \in InitConfigs : visibleAnnotations(cfg) = AnnTopics},
                  MaxHandlerOps + 1, FALSE)
  /\ MappingParked
  /\ PlayerParked
  /\ ConfigParked
  /\ SourceParked

NextNarrowing ==
  \/ handleImage
  \/ handleAnnotations
  \/ setConfig

SpecNarrowing == InitNarrowing /\ [][NextNarrowing]_vars

\* a synchronized handler whose config stays as constructed, fed with images
\* and annotation messages in any order, one operation longer
InitDelivery ==
  /\ HandlerStart({cfg \in InitConfigs : cfg.synchronize = "true"},
                  MaxHandlerOps + 1, TRUE)
  /\ MappingParked
  /\ PlayerParked
  /\ ConfigParked
  /\ SourceParked

NextDelivery ==
  \/ handleImage
  \/ handleCameraInfo
  \/ handleAnnotations

SpecDelivery == InitDelivery /\ [][NextDelivery]_vars

InitPlayer == PlayerInit /\ MappingParked /\ HandlerParked /\ ConfigParked
  /\ SourceParked

NextPlayer ==
  \/ setListener
  \/ setMappers
  \/ setSubscriptions
  \/ setGlobalVariables
  \/ setPublishers
  \/ setParameter
  \/ publish
  \/ callService
  \/ startPlayback
  \/ pausePlayback
  \/ seekPlayback
  \/ playUntil
  \/ setPlaybackSpeed
  \/ onPlayerState
  \/ resumeOnPlayerState

SpecPlayer == InitPlayer /\ [][NextPlayer]_vars

\* the player with the record of object identities: states are emitted and
\* the mappers and the variables are set
InitMemo ==
  /\ PlayerStart(TRUE, MaxPlayerOps)
  /\ MappingParked
  /\ HandlerParked
  /\ ConfigParked
  /\ SourceParked

NextMemo ==
  \/ setListener
  \/ setMappers
  \/ setGlobalVariables
  \/ onPlayerState
  \/ resumeOnPlayerState

SpecMemo == InitMemo /\ [][NextMemo]_vars

\* the player with a wrapped player that can emit without end; the promise
\* of the listener that #onPlayerState awaits is settled in the end
InitLive ==
  /\ PlayerStart(FALSE, MaxLiveOps)
  /\ MappingParked
  /\ HandlerParked
  /\ ConfigParked
  /\ SourceParked

NextLive ==
  \/ setListener
  \/ setMappers
  \/ setSubscriptions
  \/ keepsEmitting
  \/ resumeOnPlayerState

SpecLive == InitLive /\ [][NextLive]_vars /\ WF_vars(resumeOnPlayerState)

\* the topic namespacing applied to bounded strings
InitNamespace ==
  /\ NamespaceInit
  /\ rConfig = RendererConfig(<<>>, <<>>)
  /\ rOriginal = <<>>
  /\ rLast = NoMigration
  /\ rOps = 0
  /\ MappingParked
  /\ PlayerParked
  /\ HandlerParked
  /\ SourceParked

NextNamespace ==
  \/ CallNamespaceTopic
  \/ CallUnnamespacetopic

SpecNamespace == InitNamespace /\ [][NextNamespace]_vars

\* a renderer config migrated call after call
InitMigration ==
  /\ MigrationInit
  /\ nsCall = NoNamespaceCall
  /\ MappingParked
  /\ PlayerParked
  /\ HandlerParked
  /\ SourceParked

NextMigration == migrate

SpecMigration == InitMigration /\ [][NextMigration]_vars

\* a McapIterableSource whose methods are called in any order
InitSource ==
  /\ SourceInit
  /\ MappingParked
  /\ PlayerParked
  /\ HandlerParked
  /\ ConfigParked

NextSource ==
  \/ initialize
  \/ opened
  \/ indexRead
  \/ fetched
  \/ innerInitialized
  \/ messageIterator
  \/ getBackfillMessages
  \/ fetchAsset

SpecSource == InitSource /\ [][NextSource]_vars

====
